---------------------------- MODULE Spec2Model ----------------------------
(***************************************************************************)
(* Route-optimization engine of backend/route_optimizer.py together with   *)
(* the POST /optimize handler of backend/main_v2.py.                       *)
(*                                                                         *)
(* Conventions.                                                            *)
(*  - Location indices are 0-based as in the source; a route is a TLA+     *)
(*    sequence (1-based positions) of 0-based location indices.            *)
(*  - Distances are whole kilometres and times whole minutes; every        *)
(*    objective is kept as an exact integer multiple of a fixed unit, so   *)
(*    that the float arithmetic of the source is compared exactly.         *)
(*  - The two process-global random generators (module `random` and        *)
(*    `numpy.random`) are each a pair [seed, pos]: the seed last given     *)
(*    to seed() and the number of draws made since.  A draw is a           *)
(*    deterministic function of that pair.                                 *)
(***************************************************************************)
EXTENDS Integers, Sequences, FiniteSets, TLC

\* ------------------------------------------------------------------ bounds
\* number of generated geographies next to the hand-written ones
NumGenGeos == 3
\* largest entry of the three-valued matrices the Classical optimizer is run on
HiEntry == 3
\* SimulatedAnnealing: iterations of the loop (max_iterations = 5000)
SAMaxIterations == 3
\* QIEA: population_size = 60 and max_generations = 250, scaled down
QIEAPopulation == 4
QIEAGenerations == 2
\* QAOA: optimization_steps = 120 and min(num_samples // 12, 100), scaled down
QAOASteps == 3
QAOASamples == 2

\* ------------------------------------------------------- program constants
SeedHi == 10000
ClassicalMaxPasses == 1000
ClassicalLogEvery == 50
SALogEvery == 100
QIEALogEvery == 25
QAOALogEvery == 12
EliteCount == 15
TwoOptLimit == 10
PDepth == 4
Inf == 2147483647

\* random_seed = None (seeds are non-negative integers)
Null == -1
Methods == <<"random", "time_based", "distance_based", "farthest_insertion">>
ValidAlgorithms == {"classical", "simulated", "qiea", "qaoa"}
ValidProfiles == {"driving", "driving-traffic"}

\* ------------------------------------------------------------- generators
\* The stream of a generator: the value of the draw made at position pos
\* after seed(seed).  Any fixed function serves; this one mixes both
\* arguments so that neighbouring seeds and positions give unrelated draws.
RawDraw(g) ==
    LET x == (g.seed * 131 + g.pos * 977 + 4057) % 30011
    IN  ((x * x) \div 97) % 10007

Advance(g) == [g EXCEPT !.pos = @ + 1]

\* random.seed(s) / np.random.seed(s)
Seeded(s) == [seed |-> s, pos |-> 0]

\* random.randint(lo, hi) on generator g
RandInt(g, lo, hi) == lo + (RawDraw(g) % (hi - lo + 1))

\* --------------------------------------------------------------- sequences
Range(s) == {s[i] : i \in DOMAIN s}

\* list(range(n))
IdentityRoute(n) == [p \in 1..n |-> p - 1]

\* a reversal that reads the slice one position too far to the left
ReverseSliceShifted(route, i, j) ==
    [q \in 1..Len(route) |->
        IF i + 1 <= q /\ q <= j + 1 THEN route[(i + 1) + j - q]
        ELSE route[q]]

\* new_route[i:j+1] = reversed(route[i:j+1]), i and j 0-based positions
ReverseSlice(route, i, j) ==
    [q \in 1..Len(route) |->
        IF i + 1 <= q /\ q <= j + 1 THEN route[(i + 1) + (j + 1) - q]
        ELSE route[q]]

\* route.pop(i) then route.insert(j, city), i and j 0-based positions
RemoveAt(route, i) ==
    [q \in 1..(Len(route) - 1) |-> IF q <= i THEN route[q] ELSE route[q + 1]]

InsertAt(route, j, city) ==
    [q \in 1..(Len(route) + 1) |->
        IF q <= j THEN route[q]
        ELSE IF q = j + 1 THEN city
        ELSE route[q - 1]]

\* the members of a set of integers in ascending order: list(a_set) for the
\* small non-negative integers the optimizers keep in their sets
RECURSIVE SortedList(_)
SortedList(S) ==
    IF S = {} THEN <<>>
    ELSE LET m == CHOOSE x \in S : \A y \in S : x <= y
         IN  <<m>> \o SortedList(S \ {m})

\* ------------------------------------------------------------- route cost
RECURSIVE SumLegs(_, _, _)
SumLegs(M, route, q) ==
    IF q >= Len(route) THEN 0
    ELSE M[route[q]][route[q + 1]] + SumLegs(M, route, q + 1)

\* a route distance that adds the leg back to the start
calculate_route_distance_closed(D, route) ==
    IF Len(route) < 2 THEN 0
    ELSE SumLegs(D, route, 1) + D[route[Len(route)]][route[1]]

\* RouteOptimizer._calculate_route_distance
calculate_route_distance(D, route) ==
    IF Len(route) < 2 THEN 0 ELSE SumLegs(D, route, 1)

\* sum(self.time_matrix[route[i]][route[i+1]] for i in range(len(route)-1))
route_time(T, route) == SumLegs(T, route, 1)

\* a construction that goes on to the farthest unvisited location
FarthestOf(M, current, unvisited) ==
    CHOOSE x \in unvisited :
        \A y \in unvisited :
            M[current][x] > M[current][y] \/ (M[current][x] = M[current][y] /\ x <= y)

\* min(unvisited, key=lambda x: M[current][x]): the first minimal element in
\* iteration order, which is ascending for these sets
NearestOf(M, current, unvisited) ==
    CHOOSE x \in unvisited :
        \A y \in unvisited :
            M[current][x] < M[current][y] \/ (M[current][x] = M[current][y] /\ x <= y)

\* nearest-neighbour construction from index 0 over matrix M
RECURSIVE NearestNeighbour(_, _, _, _)
NearestNeighbour(M, route, current, unvisited) ==
    IF unvisited = {} THEN route
    ELSE LET nearest == NearestOf(M, current, unvisited)
         IN  NearestNeighbour(M, Append(route, nearest), nearest, unvisited \ {nearest})

\* RouteOptimizer._construct_time_focused_route
construct_time_focused_route(inst) ==
    NearestNeighbour(inst.T, <<0>>, 0, 1..(inst.n - 1))

\* RouteOptimizer._construct_distance_focused_route
construct_distance_focused_route(inst) ==
    NearestNeighbour(inst.D, <<0>>, 0, 1..(inst.n - 1))

\* route_order = [self.locations[i]["id"] for i in route]
RouteIds(inst, route) == [q \in 1..Len(route) |-> inst.ids[route[q] + 1]]

\* RouteResult as the optimizers build it.  `route` is the optimizer's
\* best_route (indices) from which route_order is converted.
\* `method` is algorithm_params["method"].
RouteResult(inst, route, dist, time, obj, log, seed, iters, method) ==
    [error |-> FALSE, method |-> method,
     route |-> route, route_order |-> RouteIds(inst, route),
     polyline |-> "", distance_km |-> dist, time_min |-> time,
     objective_value |-> obj, iterations_log |-> log, seed |-> seed,
     iterations |-> iters]

\* the early return every optimizer makes when n <= 2
EarlyResult(inst, seed, method) ==
    RouteResult(inst, IdentityRoute(inst.n), 0, 0, 0, <<>>, seed, 0, method)

\* --------------------------------------------------------------- classical
\* a scan position that also takes a reversal of equal distance
TwoOptTryNotLonger(D, st, i, j, iteration) ==
    LET new_route == ReverseSlice(st.route, i, j)
        new_distance == calculate_route_distance(D, new_route)
    IN  IF new_distance <= st.best
        THEN [route |-> new_route, best |-> new_distance, improved |-> TRUE,
              log |-> st.log]
        ELSE st

\* One scan position (i, j) of a 2-opt pass: st = [route, best, improved, log]
TwoOptTry(D, st, i, j, iteration) ==
    LET new_route == ReverseSlice(st.route, i, j)
        new_distance == calculate_route_distance(D, new_route)
    IN  IF new_distance < st.best
        THEN [route |-> new_route, best |-> new_distance, improved |-> TRUE,
              log |-> IF iteration % ClassicalLogEvery = 0
                      THEN Append(st.log, [iter |-> iteration, objective |-> new_distance])
                      ELSE st.log]
        ELSE st

\* for i in range(1, n - 1): for j in range(i + 1, n): ...
RECURSIVE TwoOptScan(_, _, _, _, _, _)
TwoOptScan(D, st, i, j, n, iteration) ==
    IF i > n - 2 THEN st
    ELSE IF j > n - 1 THEN TwoOptScan(D, st, i + 1, i + 2, n, iteration)
    ELSE TwoOptScan(D, TwoOptTry(D, st, i, j, iteration), i, j + 1, n, iteration)

\* one outer pass of `while improved and iteration < 1000`
ClassicalPass(D, st, n, iteration) ==
    TwoOptScan(D, [st EXCEPT !.improved = FALSE], 1, 2, n, iteration)

\* a 2-opt that stops after its first outer pass
ClassicalLoopOnePass(D, st, n, iteration) ==
    IF st.improved /\ iteration < ClassicalMaxPasses
    THEN [st |-> ClassicalPass(D, st, n, iteration + 1), iteration |-> iteration + 1]
    ELSE [st |-> st, iteration |-> iteration]

\* while improved and iteration < 1000: ...
RECURSIVE ClassicalLoop(_, _, _, _)
ClassicalLoop(D, st, n, iteration) ==
    IF st.improved /\ iteration < ClassicalMaxPasses
    THEN ClassicalLoop(D, ClassicalPass(D, st, n, iteration + 1), n, iteration + 1)
    ELSE [st |-> st, iteration |-> iteration]

\* the RouteResult of the tour the 2-opt loop ended with
ClassicalResult(inst, fin) ==
    RouteResult(inst, fin.st.route, fin.st.best,
                route_time(inst.T, fin.st.route), fin.st.best,
                fin.st.log, 0, fin.iteration, "greedy_2opt")

\* the 2-opt loop from the nearest-neighbour tour route0 of distance d0
ClassicalImprove(inst, route0, d0) ==
    ClassicalResult(inst,
        ClassicalLoop(inst.D,
            [route |-> route0, best |-> d0, improved |-> TRUE,
             log |-> <<[iter |-> 0, objective |-> d0]>>],
            inst.n, 0))

ClassicalFrom(inst, route0) ==
    ClassicalImprove(inst, route0, calculate_route_distance(inst.D, route0))

\* RouteOptimizer._optimize_classical
optimize_classical(inst) ==
    IF inst.n <= 2 THEN EarlyResult(inst, 0, "greedy_2opt")
    ELSE ClassicalFrom(inst, construct_distance_focused_route(inst))

\* ------------------------------------------------------ simulated annealing
\* initial_temp = 2000.0, final_temp = 1.0 in hundredths of a degree;
\* cooling_rate = 0.995 as the fraction CoolNum / CoolDen
SAInitialTemp == 200000
SAFinalTemp == 100
CoolNum == 995
CoolDen == 1000

\* random.random() takes the values k / URes, k in 0..URes-1; NegLn[k] is
\* -ln(k / URes) in hundredths, so that  u < exp(-x)  iff  x < -ln(u)
NegLn == <<139, 69, 29>>
URes == Len(NegLn) + 1

\* hybrid_objective, in tenths: 0.6 * distance + 0.4 * time
hybrid_objective(inst, route) ==
    6 * calculate_route_distance(inst.D, route) + 4 * route_time(inst.T, route)

\* random.sample(range(1, n), 2) on generator g: two distinct positions,
\* two draws
Sample2(g, n) ==
    LET i == 1 + (RawDraw(g) % (n - 1))
        rest == SortedList((1..(n - 1)) \ {i})
        j == rest[1 + (RawDraw(Advance(g)) % (n - 2))]
    IN  [i |-> i, j |-> j, g |-> Advance(Advance(g))]

SwapMove(route, i, j) ==
    [q \in 1..Len(route) |->
        IF q = i + 1 THEN route[j + 1]
        ELSE IF q = j + 1 THEN route[i + 1]
        ELSE route[q]]

InsertMove(route, i, j) == InsertAt(RemoveAt(route, i), j, route[i + 1])

\* the neighbour of one iteration: [route, g]
SANeighbour(route, n, g) ==
    IF n > 3
    THEN LET move_type == RawDraw(g) % 3
             g1 == Advance(g)
         IN  CASE move_type = 0 ->
                    LET s == Sample2(g1, n)
                    IN  [route |-> SwapMove(route, s.i, s.j), g |-> s.g]
               [] move_type = 1 ->
                    LET i == RandInt(g1, 1, n - 1)
                        j == RandInt(Advance(g1), 1, n - 1)
                    IN  [route |-> InsertMove(route, i, j), g |-> Advance(Advance(g1))]
               [] OTHER ->
                    LET s == Sample2(g1, n)
                        lo == IF s.i < s.j THEN s.i ELSE s.j
                        hi == IF s.i < s.j THEN s.j ELSE s.i
                    IN  [route |-> ReverseSlice(route, lo, hi), g |-> s.g]
    ELSE [route |-> route, g |-> g]

\* delta < 0 or random.random() < math.exp(-delta / temp): [accept, g];
\* the draw is made only when delta >= 0
SAAccept(delta, temp, g) ==
    IF delta < 0 THEN [accept |-> TRUE, g |-> g]
    ELSE LET k == RawDraw(g) % URes
         IN  [accept |-> (k = 0 \/ 1000 * delta < NegLn[k] * temp),
              g |-> Advance(g)]

\* a loop whose best follows every accepted neighbour
SAUpdateBestFollows(st, nb_route, new_objective, acc) ==
    LET iteration == st.iteration + 1
        route == IF acc.accept THEN nb_route ELSE st.route
        current_objective == IF acc.accept THEN new_objective ELSE st.current_objective
        temp == (st.temp * CoolNum) \div CoolDen
    IN  [route |-> route, current_objective |-> current_objective,
         best_route |-> route, best_objective |-> current_objective,
         temp |-> temp, log |-> st.log, g |-> acc.g, iteration |-> iteration,
         stopped |-> (temp < SAFinalTemp \/ iteration >= SAMaxIterations)]

\* the end of one iteration: the neighbour nb_route of objective
\* new_objective is taken or not (acc), the best is kept, the temperature
\* falls, the log grows
SAUpdate(st, nb_route, new_objective, acc) ==
    LET iteration == st.iteration + 1
        route == IF acc.accept THEN nb_route ELSE st.route
        current_objective == IF acc.accept THEN new_objective ELSE st.current_objective
        better == acc.accept /\ current_objective < st.best_objective
        best_route == IF better THEN route ELSE st.best_route
        best_objective == IF better THEN current_objective ELSE st.best_objective
        temp == (st.temp * CoolNum) \div CoolDen
        log == IF iteration % SALogEvery = 0
               THEN Append(st.log, [iter |-> iteration, objective |-> current_objective,
                                    best |-> best_objective, temperature |-> temp])
               ELSE st.log
    IN  [route |-> route, current_objective |-> current_objective,
         best_route |-> best_route, best_objective |-> best_objective,
         temp |-> temp, log |-> log, g |-> acc.g, iteration |-> iteration,
         stopped |-> (temp < SAFinalTemp \/ iteration >= SAMaxIterations)]

\* delta = new_objective - current_objective and the acceptance test
SAJudge(st, nb, new_objective) ==
    SAUpdate(st, nb.route, new_objective,
             SAAccept(new_objective - st.current_objective, st.temp, nb.g))

\* new_objective = hybrid_objective(new_route)
SAMove(inst, st, nb) == SAJudge(st, nb, hybrid_objective(inst, nb.route))

\* the body of `for iteration in range(1, max_iterations + 1)`;
\* st = [route, current_objective, best_route, best_objective, temp,
\*       log, g, iteration, stopped]
SAStep(inst, st) == SAMove(inst, st, SANeighbour(st.route, inst.n, st.g))

\* the state before the loop for the initial route and its objective
SAStartWith(seed, route, current_objective) ==
    [route |-> route, current_objective |-> current_objective,
     best_route |-> route, best_objective |-> current_objective,
     temp |-> SAInitialTemp,
     log |-> <<[iter |-> 0, objective |-> current_objective,
                temperature |-> SAInitialTemp]>>,
     g |-> Seeded(seed), iteration |-> 0, stopped |-> (SAMaxIterations < 1)]

SAStartFrom(inst, seed, route) ==
    SAStartWith(seed, route, hybrid_objective(inst, route))

\* the state before the loop, after seeding `random` with the drawn seed
SAStart(inst, seed) == SAStartFrom(inst, seed, construct_time_focused_route(inst))

RECURSIVE SALoop(_, _)
SALoop(inst, st) == IF st.stopped THEN st ELSE SALoop(inst, SAStep(inst, st))

\* an optimizer that reports the objective of the route the loop ended on
SAResultOfCurrent(inst, rng, seed, fin) ==
    [res |-> RouteResult(inst, fin.best_route,
                 calculate_route_distance(inst.D, fin.best_route),
                 route_time(inst.T, fin.best_route),
                 fin.current_objective, fin.log, seed, fin.iteration,
                 "simulated_annealing"),
     rng |-> [rng EXCEPT !.py = fin.g]]

\* the RouteResult of the best route of the final loop state, and the
\* generators the optimizer leaves behind
SAResult(inst, rng, seed, fin) ==
    [res |-> RouteResult(inst, fin.best_route,
                 calculate_route_distance(inst.D, fin.best_route),
                 route_time(inst.T, fin.best_route),
                 fin.best_objective, fin.log, seed, fin.iteration,
                 "simulated_annealing"),
     rng |-> [rng EXCEPT !.py = fin.g]]

SASeeded(inst, rng, seed) ==
    IF inst.n <= 2
    THEN [res |-> EarlyResult(inst, seed, "simulated_annealing"),
          rng |-> [rng EXCEPT !.py = Advance(@)]]
    ELSE SAResult(inst, rng, seed, SALoop(inst, SAStart(inst, seed)))

\* RouteOptimizer._optimize_simulated_annealing on the generators
\* rng = [py, np]: the result and the generators it leaves behind
optimize_simulated_annealing(inst, rng) ==
    SASeeded(inst, rng, RandInt(rng.py, 1, SeedHi))

\* --------------------------------------------------- farthest insertion
\* the double loop that picks start_pair: the first pair (i, j), i < j, in
\* scan order whose D[i][j] exceeds every pair before it; (0, 1) when no
\* entry above the diagonal is positive
RECURSIVE StartPairScan(_, _, _, _, _, _)
StartPairScan(D, n, i, j, max_dist, start_pair) ==
    IF i > n - 1 THEN start_pair
    ELSE IF j > n - 1 THEN StartPairScan(D, n, i + 1, i + 2, max_dist, start_pair)
    ELSE IF D[i][j] > max_dist
         THEN StartPairScan(D, n, i, j + 1, D[i][j], <<i, j>>)
         ELSE StartPairScan(D, n, i, j + 1, max_dist, start_pair)

SetMin(S) == CHOOSE x \in S : \A y \in S : x <= y

\* max(unvisited, key=lambda x: min(D[x][y] for y in route)): the first
\* maximal element in ascending order
FarthestPoint(D, route, unvisited) ==
    LET key(x) == SetMin({D[x][route[q]] : q \in 1..Len(route)})
    IN  CHOOSE x \in unvisited :
            \A y \in unvisited : key(x) > key(y) \/ (key(x) = key(y) /\ x <= y)

\* cost_increase of inserting point p at position pos (1..len(route)); the
\* branch for pos = len(route) closes the tour through route[0]
CostIncrease(D, route, p, pos) ==
    IF pos = 0
    THEN D[p][route[1]] + D[p][route[Len(route)]] - D[route[Len(route)]][route[1]]
    ELSE IF pos = Len(route)
    THEN D[route[Len(route)]][p] + D[p][route[1]] - D[route[Len(route)]][route[1]]
    ELSE D[route[pos]][p] + D[p][route[pos + 1]] - D[route[pos]][route[pos + 1]]

\* for pos in range(1, len(route) + 1): the first position of least cost
BestPosition(D, route, p) ==
    CHOOSE pos \in 1..Len(route) :
        \A other \in 1..Len(route) :
            CostIncrease(D, route, p, pos) < CostIncrease(D, route, p, other)
            \/ (CostIncrease(D, route, p, pos) = CostIncrease(D, route, p, other)
                /\ pos <= other)

RECURSIVE FarthestInsertLoop(_, _, _)
FarthestInsertLoop(D, route, unvisited) ==
    IF unvisited = {} THEN route
    ELSE LET farthest_point == FarthestPoint(D, route, unvisited)
             best_position == BestPosition(D, route, farthest_point)
         IN  FarthestInsertLoop(D, InsertAt(route, best_position, farthest_point),
                                unvisited \ {farthest_point})

\* RouteOptimizer._construct_farthest_insertion_route
construct_farthest_insertion_route(inst) ==
    IF inst.n <= 2 THEN IdentityRoute(inst.n)
    ELSE LET start_pair == StartPairScan(inst.D, inst.n, 0, 1, 0, <<0, 1>>)
         IN  FarthestInsertLoop(inst.D, start_pair,
                                (0..(inst.n - 1)) \ Range(start_pair))

\* RouteOptimizer._construct_route_with_method: [route, g] with g the
\* `random` generator.  random.shuffle(route[1:]) shuffles a copy of the
\* slice: it makes len - 1 draws and leaves route as it was.
construct_route_with_method(method, inst, g) ==
    CASE method = "random" ->
            [route |-> IdentityRoute(inst.n),
             g |-> IF inst.n > 1
                   THEN [g EXCEPT !.pos = @ + (IF inst.n > 2 THEN inst.n - 2 ELSE 0)]
                   ELSE g]
      [] method = "time_based" ->
            [route |-> construct_time_focused_route(inst), g |-> g]
      [] method = "distance_based" ->
            [route |-> construct_distance_focused_route(inst), g |-> g]
      [] method = "farthest_insertion" ->
            [route |-> construct_farthest_insertion_route(inst), g |-> g]
      [] OTHER -> [route |-> IdentityRoute(inst.n), g |-> g]

\* -------------------------------------------------------------------- QIEA
\* Affinities are kept in tenths: np.random.rand gives 0..9 tenths, the
\* learning rate 0.1 is one tenth, the cap 1.0 is QOne tenths.  A mutation
\* noise N(0, 0.05) is -1, 0 or +1 tenth.  mutation_rate = 0.15 is compared
\* with a draw in hundredths.
QOne == 10
MutationPercent == 15

RECURSIVE SeqSum(_)
SeqSum(s) == IF s = <<>> THEN 0 ELSE Head(s) + SeqSum(Tail(s))

\* qiea_objective in units of 1 / (100 n): 0.5 d + 0.3 t + 0.2 * bonus, the
\* bonus adding 0.05 * d / n for every i in range(1, len - 1) with i % 2 == 0
qiea_objective(inst, route) ==
    LET distance == calculate_route_distance(inst.D, route)
        time == route_time(inst.T, route)
        terms == Cardinality({i \in 1..(Len(route) - 2) : i % 2 = 0})
    IN  50 * inst.n * distance + 30 * inst.n * time + terms * distance

\* np.random.rand(n, n) for individual k (1-based) of the population, drawn
\* row by row from generator g
initialize_quantum_individual(n, g, k) ==
    [i \in 0..(n - 1) |-> [j \in 0..(n - 1) |->
        RawDraw([g EXCEPT !.pos = @ + (k - 1) * n * n + i * n + j]) % QOne]]

\* np.random.choice(cities, p = weights / sum(weights)) with one draw r out
\* of QOne: the first city whose cumulated weight exceeds r / QOne of the sum
RECURSIVE PickByWeight(_, _, _, _, _)
PickByWeight(cities, weights, q, cum, target) ==
    IF q >= Len(cities) \/ target < cum + weights[q] THEN cities[q]
    ELSE PickByWeight(cities, weights, q + 1, cum + weights[q], target)

WeightedChoice(cities, weights, g) ==
    LET total == SeqSum(weights)
        r == RawDraw(g) % QOne
    IN  PickByWeight(cities, [q \in 1..Len(cities) |-> weights[q] * QOne], 1, 0, r * total)

\* RouteOptimizer._quantum_to_classical_route: [route, g, raised].  When
\* the affinities towards every available city are 0 the division gives
\* NaN and np.random.choice raises ValueError.
RECURSIVE quantum_to_classical_route(_, _, _, _, _)
quantum_to_classical_route(Q, route, current_pos, available, g) ==
    IF available = {} THEN [route |-> route, g |-> g, raised |-> FALSE]
    ELSE LET cities == SortedList(available)
             probabilities == [q \in 1..Len(cities) |-> Q[current_pos][cities[q]]]
         IN  IF SeqSum(probabilities) = 0
             THEN [route |-> route, g |-> g, raised |-> TRUE]
             ELSE LET next_city == WeightedChoice(cities, probabilities, g)
                  IN  quantum_to_classical_route(Q, Append(route, next_city), next_city,
                                                 available \ {next_city}, Advance(g))

\* RouteOptimizer._quantum_rotation_update
RECURSIVE quantum_rotation_update(_, _, _)
quantum_rotation_update(Q, target_route, q) ==
    IF q >= Len(target_route) THEN Q
    ELSE LET a == target_route[q]
             b == target_route[q + 1]
             bumped == IF Q[a][b] + 1 > QOne THEN QOne ELSE Q[a][b] + 1
         IN  quantum_rotation_update([Q EXCEPT ![a][b] = bumped], target_route, q + 1)

RECURSIVE RotateTowards(_, _)
RotateTowards(Q, routes) ==
    IF routes = <<>> THEN Q
    ELSE RotateTowards(quantum_rotation_update(Q, Head(routes), 1), Tail(routes))

\* a mutation that leaves the noisy value as it is
ClipNot(x, lo, hi) == x

Clip(x, lo, hi) == IF x < lo THEN lo ELSE IF x > hi THEN hi ELSE x

\* RouteOptimizer._quantum_mutation: one normal draw per off-diagonal entry,
\* in row order, from generator g
quantum_mutation(Q, n, g) ==
    LET offdiag(i, j) == i * (n - 1) + (IF j > i THEN j - 1 ELSE j)
    IN  [i \in 0..(n - 1) |-> [j \in 0..(n - 1) |->
            IF i = j THEN Q[i][j]
            ELSE Clip(Q[i][j] + (RawDraw([g EXCEPT !.pos = @ + offdiag(i, j)]) % 3) - 1,
                      0, QOne)]]

\* sorted(classical_solutions, key=lambda x: x[1]): stable
RECURSIVE InsertSorted(_, _)
InsertSorted(sorted, x) ==
    IF sorted = <<>> THEN <<x>>
    ELSE IF x.objective < sorted[Len(sorted)].objective
         THEN Append(InsertSorted(SubSeq(sorted, 1, Len(sorted) - 1), x), sorted[Len(sorted)])
         ELSE Append(sorted, x)

RECURSIVE SortByObjective(_, _)
SortByObjective(sols, q) ==
    IF q = 0 THEN <<>> ELSE InsertSorted(SortByObjective(sols, q - 1), sols[q])

\* the routes of elite_solutions[lo:hi] (0-based, hi exclusive)
SliceRoutes(elite, lo, hi) ==
    LET top == IF hi < Len(elite) THEN hi ELSE Len(elite)
    IN  IF lo >= top THEN <<>> ELSE [q \in 1..(top - lo) |-> elite[lo + q].route]

\* the routes of elite_solutions[::3]
EveryThird(elite) ==
    [q \in 1..((Len(elite) + 2) \div 3) |-> elite[3 * (q - 1) + 1].route]

\* the elite routes individual k (1-based; i = k - 1 in the source) moves to
EliteFor(elite, k) ==
    CASE (k - 1) % 3 = 0 -> SliceRoutes(elite, 0, 3)
      [] (k - 1) % 3 = 1 -> SliceRoutes(elite, 5, 8)
      [] OTHER -> EveryThird(elite)

\* the route of a generation-0 individual, c = [route, g]
FromConstruction(acc, c) ==
    [route |-> c.route, rng |-> [acc.rng EXCEPT !.py = c.g], raised |-> FALSE]

\* the route of a later individual, w = [route, g, raised]
FromQuantum(acc, w) ==
    [route |-> w.route, rng |-> [acc.rng EXCEPT !.np = w.g], raised |-> w.raised]

\* the classical route of individual k: [route, rng, raised]
MaterializeOne(inst, generation, population, k, acc) ==
    IF generation = 0
    THEN FromConstruction(acc,
             construct_route_with_method(Methods[((k - 1) % Len(Methods)) + 1],
                                         inst, acc.rng.py))
    ELSE FromQuantum(acc,
             quantum_to_classical_route(population[k], <<0>>, 0,
                                        1..(inst.n - 1), acc.rng.np))

\* classical_solutions.append((route, objective)) and the update of the best
MaterializeKeep(acc, made, objective) ==
    LET better == ~made.raised /\ objective < acc.best_objective
    IN  [sols |-> IF made.raised THEN acc.sols
                  ELSE Append(acc.sols, [route |-> made.route, objective |-> objective]),
         best_route |-> IF better THEN made.route ELSE acc.best_route,
         best_objective |-> IF better THEN objective ELSE acc.best_objective,
         rng |-> made.rng, raised |-> made.raised]

MaterializeAdd(inst, acc, made) ==
    MaterializeKeep(acc, made, qiea_objective(inst, made.route))

\* materialize individuals k..P of one generation:
\* acc = [sols, best_route, best_objective, rng, raised]
RECURSIVE Materialize(_, _, _, _, _)
Materialize(inst, generation, population, k, acc) ==
    IF k > Len(population) \/ acc.raised THEN acc
    ELSE Materialize(inst, generation, population, k + 1,
             MaterializeAdd(inst, acc,
                 MaterializeOne(inst, generation, population, k, acc)))

\* rotation and mutation of individuals k..P: acc = [population, rng]
RECURSIVE UpdatePopulation(_, _, _, _)
UpdatePopulation(inst, elite, k, acc) ==
    IF k > Len(acc.population) THEN acc
    ELSE LET rotated == RotateTowards(acc.population[k], EliteFor(elite, k))
             mutate == (RawDraw(acc.rng.py) % 100) < MutationPercent
             py == Advance(acc.rng.py)
             Q == IF mutate THEN quantum_mutation(rotated, inst.n, acc.rng.np) ELSE rotated
             np == IF mutate
                   THEN [acc.rng.np EXCEPT !.pos = @ + inst.n * (inst.n - 1)]
                   ELSE acc.rng.np
         IN  UpdatePopulation(inst, elite, k + 1,
                [population |-> [acc.population EXCEPT ![k] = Q],
                 rng |-> [py |-> py, np |-> np]])

Abs(x) == IF x < 0 THEN -x ELSE x

\* np.sum(np.abs(A - B)) for two individuals
MatrixDistance(A, B, n) ==
    SeqSum([i \in 1..n |-> SeqSum([j \in 1..n |-> Abs(A[i - 1][j - 1] - B[i - 1][j - 1])])])

\* RouteOptimizer._calculate_population_diversity, as the sum of the
\* absolute differences (the mean times the fixed number of terms)
calculate_population_diversity(population, n) ==
    IF Len(population) < 2 THEN 0
    ELSE SeqSum([k \in 1..Len(population) |->
             SeqSum([l \in 1..(Len(population) - k) |->
                 MatrixDistance(population[k], population[k + l], n)])])

\* elite_solutions = sorted(...)[:15]
EliteOf(sorted) ==
    SubSeq(sorted, 1, IF Len(sorted) < EliteCount THEN Len(sorted) ELSE EliteCount)

\* the end of a generation: m is the materialized generation, u the
\* updated population
QIEAAfterUpdate(inst, st, m, u) ==
    [population |-> u.population, best_route |-> m.best_route,
     best_objective |-> m.best_objective,
     log |-> IF st.generation % QIEALogEvery = 0
             THEN Append(st.log,
                      [iter |-> st.generation, objective |-> m.best_objective,
                       population_diversity |->
                           calculate_population_diversity(u.population, inst.n)])
             ELSE st.log,
     rng |-> u.rng, generation |-> st.generation + 1, raised |-> FALSE]

QIEAAfterMaterialize(inst, st, m) ==
    IF m.raised
    THEN [st EXCEPT !.rng = m.rng, !.raised = TRUE]
    ELSE QIEAAfterUpdate(inst, st, m,
             UpdatePopulation(inst, EliteOf(SortByObjective(m.sols, Len(m.sols))), 1,
                              [population |-> st.population, rng |-> m.rng]))

\* the body of `for generation in range(max_generations)`;
\* st = [population, best_route, best_objective, log, rng, generation, raised]
QIEAGeneration(inst, st) ==
    QIEAAfterMaterialize(inst, st,
        Materialize(inst, st.generation, st.population, 1,
            [sols |-> <<>>, best_route |-> st.best_route,
             best_objective |-> st.best_objective, rng |-> st.rng,
             raised |-> FALSE]))

\* the state before the generation loop, both generators seeded with seed
QIEAStart(inst, seed) ==
    [population |-> [k \in 1..QIEAPopulation |->
                        initialize_quantum_individual(inst.n, Seeded(seed), k)],
     best_route |-> <<>>, best_objective |-> Inf, log |-> <<>>,
     rng |-> [py |-> Seeded(seed),
              np |-> [seed |-> seed, pos |-> QIEAPopulation * inst.n * inst.n]],
     generation |-> 0, raised |-> FALSE]

RECURSIVE QIEALoop(_, _)
QIEALoop(inst, st) ==
    IF st.raised \/ st.generation >= QIEAGenerations THEN st
    ELSE QIEALoop(inst, QIEAGeneration(inst, st))

\* what an optimizer hands to the engine when it raises
Raised == [error |-> TRUE]

\* the outcome of the final loop state: the exception, or the RouteResult
\* of the best route
QIEAResult(inst, seed, fin) ==
    IF fin.raised THEN [res |-> Raised, rng |-> fin.rng]
    ELSE [res |-> RouteResult(inst, fin.best_route,
                      calculate_route_distance(inst.D, fin.best_route),
                      route_time(inst.T, fin.best_route),
                      fin.best_objective, fin.log, seed, fin.generation, "qiea"),
          rng |-> fin.rng]

QIEASeeded(inst, rng, seed) ==
    IF inst.n <= 2
    THEN [res |-> EarlyResult(inst, seed, "qiea"),
          rng |-> [rng EXCEPT !.py = Advance(@)]]
    ELSE QIEAResult(inst, seed, QIEALoop(inst, QIEAStart(inst, seed)))

\* RouteOptimizer._optimize_qiea on the generators rng = [py, np]
optimize_qiea(inst, rng) == QIEASeeded(inst, rng, RandInt(rng.py, 1, SeedHi))

\* -------------------------------------------------------------------- QAOA
\* qaoa_objective in units of 1 / (100 n): base = 0.3 d + 0.7 t, plus
\* -0.1 * base * direction_changes / n when n > 3
qaoa_objective(inst, route) ==
    LET base10 == 3 * calculate_route_distance(inst.D, route)
                  + 7 * route_time(inst.T, route)
        direction_changes ==
            Cardinality({i \in 1..(Len(route) - 2) :
                Abs(route[i + 1] - route[i]) # Abs(route[i + 2] - route[i + 1])})
    IN  IF inst.n > 3
        THEN 10 * inst.n * base10 - base10 * direction_changes
        ELSE 10 * inst.n * base10

RECURSIVE SeqProduct(_)
SeqProduct(s) == IF s = <<>> THEN 1 ELSE Head(s) * SeqProduct(Tail(s))

\* RouteOptimizer._simulate_qaoa_circuit_time_focused restricted to the
\* cities of one sampling step: probabilities[current, city] for the
\* cities is proportional to 1 / (1 + T[current][city]); the weights are
\* those fractions over their common denominator
TimeBiasWeights(T, current, cities) ==
    LET den == [q \in 1..Len(cities) |-> 1 + T[current][cities[q]]]
    IN  [q \in 1..Len(cities) |->
            SeqProduct([r \in 1..(Len(cities) - 1) |->
                            IF r < q THEN den[r] ELSE den[r + 1]])]

\* RouteOptimizer._sample_route_from_probabilities: [route, rng]
RECURSIVE sample_route_from_probabilities(_, _, _, _, _)
sample_route_from_probabilities(T, route, current, available, rng) ==
    IF available = {} THEN [route |-> route, rng |-> rng]
    ELSE LET cities == SortedList(available)
             probs == TimeBiasWeights(T, current, cities)
             positive == SeqSum(probs) > 0
             next_city == IF positive THEN WeightedChoice(cities, probs, rng.np)
                          ELSE cities[1 + (RawDraw(rng.py) % Len(cities))]
             after == IF positive THEN [rng EXCEPT !.np = Advance(@)]
                      ELSE [rng EXCEPT !.py = Advance(@)]
         IN  sample_route_from_probabilities(T, Append(route, next_city), next_city,
                                             available \ {next_city}, after)

\* the scan of one pass of the bounded 2-opt, stopping at the first
\* improving reversal: [improved, route, distance]
RECURSIVE FirstImprovement(_, _, _, _, _)
FirstImprovement(D, route, best_distance, i, j) ==
    LET n == Len(route)
    IN  IF i > n - 2 THEN [improved |-> FALSE, route |-> route, distance |-> best_distance]
        ELSE IF j > n - 1 THEN FirstImprovement(D, route, best_distance, i + 1, i + 2)
        ELSE LET new_route == ReverseSlice(route, i, j)
                 new_distance == calculate_route_distance(D, new_route)
             IN  IF new_distance < best_distance
                 THEN [improved |-> TRUE, route |-> new_route, distance |-> new_distance]
                 ELSE FirstImprovement(D, route, best_distance, i, j + 1)

RECURSIVE LimitedPasses(_, _, _, _, _)
LimitedPasses(D, route, best_distance, iteration, max_iterations) ==
    IF iteration >= max_iterations THEN route
    ELSE LET scan == FirstImprovement(D, route, best_distance, 1, 2)
         IN  IF ~scan.improved THEN route
             ELSE LimitedPasses(D, scan.route, scan.distance, iteration + 1, max_iterations)

\* RouteOptimizer._local_search_2opt_limited
local_search_2opt_limited(D, route, max_iterations) ==
    IF Len(route) <= 3 THEN route
    ELSE LimitedPasses(D, route, calculate_route_distance(D, route), 0, max_iterations)

\* the route of one sample of step `step`: [route, rng]
QAOASample(inst, step, rng) ==
    LET start == 1..(inst.n - 1)
    IN  IF step < QAOASteps \div 3
        THEN sample_route_from_probabilities(inst.T, <<0>>, 0, start, rng)
        ELSE IF step < (2 * QAOASteps) \div 3
        THEN LET coin == RawDraw(rng.py) % 2
                 after == [rng EXCEPT !.py = Advance(@)]
             IN  IF coin = 0
                 THEN sample_route_from_probabilities(inst.T, <<0>>, 0, start, after)
                 ELSE [route |-> construct_time_focused_route(inst), rng |-> after]
        ELSE LET s == sample_route_from_probabilities(inst.T, <<0>>, 0, start, rng)
             IN  [route |-> local_search_2opt_limited(inst.D, s.route, TwoOptLimit),
                  rng |-> s.rng]

\* the best of the samples so far and sample s = [route, rng] of the given
\* objective
QAOAKeep(acc, s, objective) ==
    LET better == objective < acc.best_objective
    IN  [best_route |-> IF better THEN s.route ELSE acc.best_route,
         best_objective |-> IF better THEN objective ELSE acc.best_objective,
         rng |-> s.rng]

QAOAKeepBest(inst, acc, s) == QAOAKeep(acc, s, qaoa_objective(inst, s.route))

\* for _ in range(min(num_samples // 12, 100)):
\* acc = [best_route, best_objective, rng]
RECURSIVE QAOASamplesLoop(_, _, _, _)
QAOASamplesLoop(inst, step, k, acc) ==
    IF k >= QAOASamples THEN acc
    ELSE QAOASamplesLoop(inst, step, k + 1,
             QAOAKeepBest(inst, acc, QAOASample(inst, step, acc.rng)))

\* gamma and beta in hundredths; the parameter update of one step draws, for
\* each layer i, gamma_delta then beta_delta from np.random
QAOANoise(g, spread, step) ==
    (((RawDraw(g) % 3) - 1) * spread * (QAOASteps - step)) \div QAOASteps

QAOAUpdateParams(params, step, g) ==
    [gamma |-> [i \in 1..PDepth |->
                   Clip(params.gamma[i]
                        + QAOANoise([g EXCEPT !.pos = @ + 2 * (i - 1)], 15, step), 0, 314)],
     beta |-> [i \in 1..PDepth |->
                   Clip(params.beta[i]
                        + QAOANoise([g EXCEPT !.pos = @ + 2 * (i - 1) + 1], 10, step), 0, 157)]]

QAOAPhase(step) ==
    IF step < QAOASteps \div 3 THEN "early"
    ELSE IF step < (2 * QAOASteps) \div 3 THEN "middle" ELSE "late"

\* the end of a step: s is the outcome of its samples, params the updated
\* gamma and beta
QAOAAfterUpdate(st, s, update, params) ==
    [params |-> params, best_route |-> s.best_route,
     best_objective |-> s.best_objective,
     log |-> IF st.step % QAOALogEvery = 0
             THEN Append(st.log,
                      [iter |-> st.step, objective |-> s.best_objective,
                       gamma_avg |-> SeqSum(params.gamma),
                       beta_avg |-> SeqSum(params.beta),
                       exploration_phase |-> QAOAPhase(st.step)])
             ELSE st.log,
     rng |-> IF update THEN [s.rng EXCEPT !.np.pos = @ + 2 * PDepth] ELSE s.rng,
     step |-> st.step + 1]

\* `if step < optimization_steps - 1`: gamma and beta move
QAOAAfterSamples(st, s, update) ==
    QAOAAfterUpdate(st, s, update,
        IF update THEN QAOAUpdateParams(st.params, st.step, s.rng.np) ELSE st.params)

\* the body of `for step in range(optimization_steps)`;
\* st = [params, best_route, best_objective, log, rng, step]
QAOAStep(inst, st) ==
    QAOAAfterSamples(st,
        QAOASamplesLoop(inst, st.step, 0,
            [best_route |-> st.best_route, best_objective |-> st.best_objective,
             rng |-> st.rng]),
        st.step < QAOASteps - 1)

\* the state before the step loop: both generators seeded, gamma and beta
\* drawn with np.random.uniform
QAOAStart(inst, seed) ==
    [params |-> [gamma |-> [i \in 1..PDepth |->
                               20 + (RawDraw([seed |-> seed, pos |-> i - 1]) % 60)],
                 beta |-> [i \in 1..PDepth |->
                               10 + (RawDraw([seed |-> seed, pos |-> PDepth + i - 1]) % 30)]],
     best_route |-> <<>>, best_objective |-> Inf, log |-> <<>>,
     rng |-> [py |-> Seeded(seed), np |-> [seed |-> seed, pos |-> 2 * PDepth]],
     step |-> 0]

RECURSIVE QAOALoop(_, _)
QAOALoop(inst, st) ==
    IF st.step >= QAOASteps THEN st ELSE QAOALoop(inst, QAOAStep(inst, st))

\* the RouteResult of the best route of the final loop state
QAOAResult(inst, seed, fin) ==
    [res |-> RouteResult(inst, fin.best_route,
                 calculate_route_distance(inst.D, fin.best_route),
                 route_time(inst.T, fin.best_route),
                 fin.best_objective, fin.log, seed, fin.step, "qaoa"),
     rng |-> fin.rng]

QAOASeeded(inst, rng, seed) ==
    IF inst.n <= 2
    THEN [res |-> EarlyResult(inst, seed, "qaoa"),
          rng |-> [rng EXCEPT !.py = Advance(@)]]
    ELSE QAOAResult(inst, seed, QAOALoop(inst, QAOAStart(inst, seed)))

\* RouteOptimizer._optimize_qaoa on the generators rng = [py, np]
optimize_qaoa(inst, rng) == QAOASeeded(inst, rng, RandInt(rng.py, 1, SeedHi))

\* ------------------------------------------------------------- the world
\* A geography gives the road distance (km) and time (min) between the four
\* coordinates 0..3 a request can name: what the matrix provider answers.
\* Rows and columns of the tuples are coordinate + 1.
ScenarioB ==
    LET M == << <<0, 10, 5, 8>>, <<10, 0, 3, 4>>, <<5, 3, 0, 6>>, <<8, 4, 6, 0>> >>
    IN  [D |-> M, T |-> M]

\* coordinates 1..3 are D = T = [[0,1,2],[1,0,1],[2,1,0]]
ScenarioA ==
    LET M == << <<0, 2, 2, 3>>, <<2, 0, 1, 2>>, <<2, 1, 0, 1>>, <<3, 2, 1, 0>> >>
    IN  [D |-> M, T |-> M]

\* the two farthest coordinates are 2 and 3; coordinate 1 lies between them
FarPair ==
    LET M == << <<0, 1, 4, 4>>, <<1, 0, 1, 1>>, <<4, 1, 0, 5>>, <<4, 1, 5, 0>> >>
    IN  [D |-> M, T |-> M]

\* asymmetric, and the fast roads are not the short ones
OneWay ==
    [D |-> << <<0, 2, 9, 4>>, <<7, 0, 3, 8>>, <<1, 6, 0, 2>>, <<5, 1, 7, 0>> >>,
     T |-> << <<0, 9, 2, 5>>, <<3, 0, 8, 1>>, <<6, 2, 0, 9>>, <<1, 7, 3, 0>> >>]

\* every pair of coordinates at distance 0
AllZero ==
    LET M == << <<0, 0, 0, 0>>, <<0, 0, 0, 0>>, <<0, 0, 0, 0>>, <<0, 0, 0, 0>> >>
    IN  [D |-> M, T |-> M]

\* long hauls: differences of objective comparable with the temperature
Continental ==
    [D |-> << <<0, 900, 2500, 400>>, <<900, 0, 700, 3000>>,
              <<2500, 700, 0, 1200>>, <<400, 3000, 1200, 0>> >>,
     T |-> << <<0, 700, 1900, 500>>, <<700, 0, 900, 2100>>,
              <<1900, 900, 0, 800>>, <<500, 2100, 800, 0>> >>]

GenGeo(k) ==
    [D |-> [i \in 1..4 |-> [j \in 1..4 |->
              IF i = j THEN 0 ELSE 1 + ((k * (3 * i + 5 * j + 1) + i * j) % 7)]],
     T |-> [i \in 1..4 |-> [j \in 1..4 |->
              IF i = j THEN 0 ELSE 1 + ((k * (5 * i + 2 * j + 3) + i + k) % 5)]]]

Geos == {ScenarioA, ScenarioB, FarPair, OneWay, AllZero, Continental}
            \cup {GenGeo(k) : k \in 1..NumGenGeos}

\* a stop: its id and the coordinate (lat, lng) it lies at
Stop(id, pt) == [id |-> id, pt |-> pt]

\* The coordinates lie on one meridian, 0.045 degrees of latitude apart:
\* the lat of a stop at coordinate pt, in thousandths of a degree.
\* Coordinate 3 is the pole; coordinate 4 has a lat above 90 degrees, and
\* the provider knows no road to or from it.
LatMilli(pt) == 89865 + 45 * pt

\* GoogleMapsService._haversine_distance between two coordinates, in km:
\* R * dlat on a meridian, 5 km for 0.045 degrees
haversine_distance(a, b) == 5 * (IF a < b THEN b - a ELSE a - b)

\* time_matrix[i][j] = dist_km * 1.2
FallbackMinutes(dist_km) == (12 * dist_km) \div 10

\* the stops and depot of a request
Bases ==
    { [stops |-> <<>>, depot |-> FALSE],
      [stops |-> <<Stop("a", 1)>>, depot |-> TRUE],
      [stops |-> <<Stop("a", 1), Stop("b", 2)>>, depot |-> FALSE],
      [stops |-> <<Stop("a", 1), Stop("b", 2)>>, depot |-> TRUE],
      [stops |-> <<Stop("a", 1), Stop("b", 2), Stop("c", 3)>>, depot |-> FALSE],
      [stops |-> <<Stop("a", 1), Stop("b", 2), Stop("c", 3)>>, depot |-> TRUE],
      [stops |-> <<Stop("a", 1), Stop("a", 2), Stop("depot", 3)>>, depot |-> TRUE],
      [stops |-> <<Stop("a", 1), Stop("b", 4), Stop("c", 3)>>, depot |-> FALSE] }

AlgLists ==
    { <<"classical">>, <<"simulated">>, <<"qiea", "simulated">>,
      <<"qaoa", "qiea">>, <<"classical", "qaoa">>,
      <<"classical", "simulated", "qiea", "qaoa">>,
      <<"classical", "genetic">> }

SeedChoices == {Null, 7, 42}

Requests == {1, 2}

\* the requests a client can send for the stops and depot of base b
RequestInputs(b) ==
    { [stops |-> b.stops, depot |-> b.depot, algorithms |-> a,
       random_seed |-> s, google_api_key |-> "key", routing_profile |-> "driving"]
        : a \in AlgLists, s \in SeedChoices }
    \cup
    { [stops |-> b.stops, depot |-> b.depot, algorithms |-> <<"classical">>,
       random_seed |-> Null, google_api_key |-> k, routing_profile |-> p]
        : k \in {"", "key"}, p \in {"driving-traffic", "walking"} }

\* ------------------------------------------------------------ the engine
VARIABLES
    geo,         \* the geography the matrix provider answers from
    rng,         \* the process-global generators [py, np]
    provider,    \* "up", "down": every call of the provider fails, or
                 \* "unreliable": a call for a full polyline ends in any way
    req,         \* per request: input, control state, instance, results
    overlapped,  \* per request: was another request in flight during it
    probe        \* one routine of the engine run step by step on its own

vars == <<geo, rng, provider, req, overlapped, probe>>

\* no routine is run on its own
NoProbe == [kind |-> "none"]

NoResult == [error |-> FALSE, method |-> "", route |-> <<>>, route_order |-> <<>>, polyline |-> "",
             distance_km |-> 0, time_min |-> 0, objective_value |-> 0,
             iterations_log |-> <<>>, seed |-> 0, iterations |-> 0]

NoInstance == [n |-> 0, ids |-> <<>>, D |-> <<>>, T |-> <<>>]

NoResults == [a \in {} |-> NoResult]

\* the calls a request has made of the matrix provider: the number of batch
\* calls, and for each pair of locations the number of directions calls
NoCalls == [batch |-> 0, directions |-> [p \in {} |-> 0]]

\* a request the process has not received yet
Idle(input) ==
    [input |-> input, pc |-> "idle", locations |-> <<>>, inst |-> NoInstance,
     k |-> 0, pending |-> NoResult, results |-> NoResults, status |-> 0,
     detail |-> "", distanceMatrixSource |-> "", warnings |-> <<>>,
     calls |-> NoCalls, polyline_calls |-> <<>>, cancelled |-> FALSE,
     signalled_in |-> ""]

\* a request slot that is never used
Unused == [Idle([stops |-> <<>>, depot |-> FALSE, algorithms |-> <<>>,
                 random_seed |-> Null, google_api_key |-> "",
                 routing_profile |-> ""]) EXCEPT !.pc = "unused"]

InFlight(q) == q.pc \in {"await_matrix", "await_polyline"}

\* main_v2.optimize_routes, the checks at the head of the try block: the
\* detail of the HTTPException(400) raised, or "ok"
HandlerValidation(input) ==
    IF Len(input.stops) < 2 THEN "At least 2 delivery stops are required"
    ELSE IF input.google_api_key = "" THEN "Google API key is required"
    ELSE IF input.routing_profile \notin ValidProfiles THEN "Invalid routing profile"
    ELSE IF Range(input.algorithms) \ ValidAlgorithms # {} THEN "Invalid algorithms"
    ELSE "ok"

\* the except clauses of main_v2.optimize_routes: `except ValueError` gives
\* 400, `except Exception` gives 500 for every other exception raised inside
\* the try block (HTTPException is an Exception and not a ValueError)
ExceptStatus(exception) == IF exception = "ValueError" THEN 400 ELSE 500

\* the detail of the answer: str(e) for a ValueError, and for every other
\* exception the fixed text that str(e) is appended to
ExceptDetail(exception, message) ==
    IF exception = "ValueError" THEN message
    ELSE "Internal server error during optimization"

\* an engine that leaves the generators as it finds them
seed_generators_skipped(g, random_seed) == g

\* RouteOptimizer.optimize_routes: random.seed / np.random.seed
seed_generators(g, random_seed) ==
    IF random_seed # Null
    THEN [py |-> Seeded(random_seed), np |-> Seeded(random_seed)]
    ELSE g

\* RouteOptimizer.optimize_routes: "At least 2 stops required"
EngineValidation(input) ==
    IF Len(input.stops) < 2 THEN "At least 2 stops required" ELSE "ok"

\* self.locations: the stops, the depot inserted in front as id "depot"
\* at coordinate 0
BuildLocations(input) ==
    IF input.depot THEN <<Stop("depot", 0)>> \o input.stops ELSE input.stops

\* the provider has an answer for the pair of coordinates a, b
ElementOK(a, b) == a \in 0..3 /\ b \in 0..3

\* _get_distance_matrix_batch, one element: the provider's distance, or the
\* Haversine distance when the element's status is not OK
BatchDistance(g, a, b) ==
    IF ElementOK(a, b) THEN g.D[a + 1][b + 1] ELSE haversine_distance(a, b)

\* _get_distance_matrix_batch, one element: the provider's time, or 1.2
\* times the Haversine distance
BatchTime(g, a, b) ==
    IF ElementOK(a, b) THEN g.T[a + 1][b + 1]
    ELSE FallbackMinutes(haversine_distance(a, b))

\* get_route_matrix, one entry of the distance matrix: the batch answer, or
\* after a failed batch call and a failed directions call the Haversine
\* distance
MatrixDistanceEntry(g, service, a, b) ==
    IF service # "down" THEN BatchDistance(g, a, b) ELSE haversine_distance(a, b)

MatrixTimeEntry(g, service, a, b) ==
    IF service # "down" THEN BatchTime(g, a, b)
    ELSE FallbackMinutes(haversine_distance(a, b))

\* the matrices of get_route_matrix for the locations
BuildInstance(g, service, locations) ==
    LET n == Len(locations)
    IN  [n |-> n,
         ids |-> [q \in 1..n |-> locations[q].id],
         D |-> [i \in 0..(n - 1) |-> [j \in 0..(n - 1) |->
                   MatrixDistanceEntry(g, service,
                       locations[i + 1].pt, locations[j + 1].pt)]],
         T |-> [i \in 0..(n - 1) |-> [j \in 0..(n - 1) |->
                   MatrixTimeEntry(g, service,
                       locations[i + 1].pt, locations[j + 1].pt)]]]

\* the "source" of the dict get_route_matrix returns: the batch result's,
\* or the one of the pair-by-pair loop
MatrixSource(service) ==
    IF service # "down" THEN "Google Maps Distance Matrix API"
    ELSE "Google Maps Directions API"

\* the number of _get_directions calls get_route_matrix makes for one pair
\* of distinct locations when the batch call has failed
DirectionsAttempts == 1

\* the calls of the provider get_route_matrix makes: one batch call, and
\* when it fails one directions call for every pair of distinct locations
MatrixCalls(service, n) ==
    [batch |-> 1,
     directions |-> IF service # "down" THEN [p \in {} |-> 0]
                    ELSE [p \in {c \in (0..(n - 1)) \X (0..(n - 1)) : c[1] # c[2]}
                             |-> DirectionsAttempts]]

\* "warnings" of the response's debug record
ResponseWarnings == <<>>

\* the record stored for an optimizer that raised
ErrorRecord(random_seed) ==
    [error |-> TRUE, method |-> "", route |-> <<>>, route_order |-> <<>>,
     polyline |-> "", distance_km |-> 0, time_min |-> 0, objective_value |-> Inf,
     iterations_log |-> <<>>, seed |-> IF random_seed = Null THEN 0 ELSE random_seed,
     iterations |-> 0]

\* the if / elif chain of the dispatch loop
RunOptimizer(algorithm, inst, g) ==
    CASE algorithm = "classical" -> [res |-> optimize_classical(inst), rng |-> g]
      [] algorithm = "simulated" -> optimize_simulated_annealing(inst, g)
      [] algorithm = "qiea" -> optimize_qiea(inst, g)
      [] algorithm = "qaoa" -> optimize_qaoa(inst, g)

RECURSIVE DispatchFrom(_, _, _, _, _)

\* an engine that gives up the remaining algorithms when one raises
AfterOptimizerAborting(inst, input, k, results, run) ==
    IF run.res.error
    THEN [k |-> Len(input.algorithms) + 1, waiting |-> FALSE, pending |-> NoResult,
          results |-> (input.algorithms[k] :> ErrorRecord(input.random_seed)) @@ results,
          rng |-> run.rng]
    ELSE IF Len(run.res.route_order) < 2
    THEN DispatchFrom(inst, input, k + 1,
             (input.algorithms[k] :> run.res) @@ results, run.rng)
    ELSE [k |-> k, waiting |-> TRUE, pending |-> run.res,
          results |-> results, rng |-> run.rng]

\* what follows the call of optimizer k, run = [res, rng]: the except
\* clause stores the error record and the loop goes on; a returned result
\* awaits its polyline
AfterOptimizer(inst, input, k, results, run) ==
    IF run.res.error
    THEN DispatchFrom(inst, input, k + 1,
             (input.algorithms[k] :> ErrorRecord(input.random_seed)) @@ results,
             run.rng)
    ELSE IF Len(run.res.route_order) < 2
    THEN DispatchFrom(inst, input, k + 1,
             (input.algorithms[k] :> run.res) @@ results, run.rng)
    ELSE [k |-> k, waiting |-> TRUE, pending |-> run.res,
          results |-> results, rng |-> run.rng]

\* `for algorithm in algorithms` from position k up to the next suspension:
\* either an optimizer returned and its polyline is awaited (waiting), or
\* the list is exhausted
DispatchFrom(inst, input, k, results, g) ==
    IF k > Len(input.algorithms)
    THEN [k |-> k, waiting |-> FALSE, pending |-> NoResult, results |-> results, rng |-> g]
    ELSE IF input.algorithms[k] \notin ValidAlgorithms
    THEN DispatchFrom(inst, input, k + 1, results, g)
    ELSE AfterOptimizer(inst, input, k, results,
                        RunOptimizer(input.algorithms[k], inst, g))

\* the request after a stretch of the dispatch loop
AfterDispatch(q, d) ==
    IF d.waiting
    THEN [q EXCEPT !.pc = "await_polyline", !.k = d.k, !.pending = d.pending,
                   !.results = d.results]
    ELSE [q EXCEPT !.pc = "responded", !.k = d.k, !.pending = NoResult,
                   !.results = d.results, !.status = 200,
                   !.warnings = ResponseWarnings]

\* POST /optimize arrives: the handler validates, the engine seeds the
\* generators, validates, builds the locations and asks for the matrices
Receive(r) ==
    /\ req[r].pc = "idle"
    /\ LET input == req[r].input
           checked == HandlerValidation(input)
       IN  IF checked # "ok"
           THEN /\ req' = [req EXCEPT ![r].pc = "responded",
                                      ![r].status = ExceptStatus("HTTPException"),
                                      ![r].detail = ExceptDetail("HTTPException", checked)]
                /\ rng' = rng
           ELSE /\ rng' = seed_generators(rng, input.random_seed)
                /\ IF EngineValidation(input) # "ok"
                   THEN req' = [req EXCEPT ![r].pc = "responded",
                                          ![r].status = ExceptStatus("ValueError"),
                                          ![r].detail = ExceptDetail("ValueError",
                                                           EngineValidation(input))]
                   ELSE req' = [req EXCEPT ![r].pc = "await_matrix",
                                          ![r].locations = BuildLocations(input)]
    /\ overlapped' = [x \in Requests |->
                         IF \E y \in Requests \ {r} : InFlight(req[y])
                         THEN overlapped[x] \/ x = r \/ InFlight(req[x])
                         ELSE overlapped[x]]
    /\ UNCHANGED <<geo, provider, probe>>

\* request r, now q, after the stretch d of its dispatch loop
Resume(r, q, d) ==
    /\ req' = [req EXCEPT ![r] = AfterDispatch(q, d)]
    /\ rng' = d.rng

\* the dispatch loop of request r, now q, goes on at position k
RunFrom(r, q, k, results) ==
    Resume(r, q, DispatchFrom(q.inst, q.input, k, results, rng))

\* get_route_matrix returns: the engine stores the matrices and runs the
\* dispatch loop up to its next suspension
MatrixReturned(r) ==
    /\ req[r].pc = "await_matrix"
    /\ ~req[r].cancelled
    /\ RunFrom(r, [req[r] EXCEPT
                      !.inst = BuildInstance(geo, provider, req[r].locations),
                      !.distanceMatrixSource = MatrixSource(provider),
                      !.calls = MatrixCalls(provider, Len(req[r].locations))],
               1, NoResults)
    /\ UNCHANGED <<geo, provider, overlapped, probe>>

\* how a call of the directions endpoint for the full polyline can fail: a
\* status other than 200, a payload whose status is not OK or that has no
\* routes, an exception of the session, a session that is None
PolylineFailures == {"status", "payload", "exception", "no_session"}

\* the ends a call for the full polyline can have with the provider in the
\* given condition (the handler opens the session before the engine runs)
PolylineOutcomes(service) ==
    CASE service = "up" -> {"ok"}
      [] service = "down" -> {"exception"}
      [] OTHER -> {"ok", "status", "payload", "exception"}

\* GoogleMapsService.get_full_route_polyline: the encoded polyline, or ""
\* on any failure
get_full_route_polyline(route_order, outcome) ==
    IF Len(route_order) < 2 THEN ""
    ELSE IF outcome = "ok" THEN "encoded" ELSE ""

\* the request q after its call for a polyline ended as `outcome`
PolylineCalled(q, outcome) == [q EXCEPT !.polyline_calls = Append(@, outcome)]

\* an engine that files the error record when no polyline came back
StoreResultOrError(q, polyline) ==
    (q.input.algorithms[q.k] :>
         IF polyline = "" THEN ErrorRecord(q.input.random_seed)
         ELSE [q.pending EXCEPT !.polyline = polyline]) @@ q.results

\* an engine that files a result under the method the optimizer reports
StoreResultUnderMethod(q, polyline) ==
    (q.pending.method :> [q.pending EXCEPT !.polyline = polyline]) @@ q.results

\* results[algorithm] = asdict(result), with result.polyline = polyline
StoreResult(q, polyline) ==
    (q.input.algorithms[q.k] :> [q.pending EXCEPT !.polyline = polyline]) @@ q.results

\* get_full_route_polyline returns: the result is stored with its polyline
\* and the dispatch loop goes on
PolylineReturned(r) ==
    /\ req[r].pc = "await_polyline"
    /\ ~req[r].cancelled
    /\ \E outcome \in PolylineOutcomes(provider) :
           RunFrom(r, PolylineCalled(req[r], outcome), req[r].k + 1,
                   StoreResult(req[r],
                       get_full_route_polyline(req[r].pending.route_order, outcome)))
    /\ UNCHANGED <<geo, provider, overlapped, probe>>

\* The engine takes no cancellation signal and its optimizer loops test
\* none: the one cancellation that reaches a request is that of its task,
\* which raises CancelledError at the await the task is suspended at.
\* Cancel(r): the task of request r is cancelled while it is suspended.
Cancel(r) ==
    /\ InFlight(req[r])
    /\ ~req[r].cancelled
    /\ req' = [req EXCEPT ![r].cancelled = TRUE]
    /\ UNCHANGED <<geo, rng, provider, overlapped, probe>>

\* request r, now q, after a stretch d of its dispatch loop during whose
\* last optimizer the cancellation was signalled: the optimizer has run
\* to its return, and the request is suspended at the await that follows
ResumeSignalled(r, q, d) ==
    /\ d.waiting
    /\ req' = [req EXCEPT ![r] = [AfterDispatch(q, d) EXCEPT
                                     !.cancelled = TRUE,
                                     !.signalled_in = q.input.algorithms[d.k]]]
    /\ rng' = d.rng

\* the cancellation is signalled while an optimizer of request r is
\* running its loop: no code of the loop looks for it
CancelWhileRunning(r) ==
    /\ ~req[r].cancelled
    /\ \/ /\ req[r].pc = "await_matrix"
          /\ ResumeSignalled(r,
                 [req[r] EXCEPT
                      !.inst = BuildInstance(geo, provider, req[r].locations),
                      !.distanceMatrixSource = MatrixSource(provider),
                      !.calls = MatrixCalls(provider, Len(req[r].locations))],
                 DispatchFrom(BuildInstance(geo, provider, req[r].locations),
                              req[r].input, 1, NoResults, rng))
       \/ /\ req[r].pc = "await_polyline"
          /\ \E outcome \in PolylineOutcomes(provider) :
                 ResumeSignalled(r, PolylineCalled(req[r], outcome),
                     DispatchFrom(req[r].inst, req[r].input, req[r].k + 1,
                         StoreResult(req[r],
                             get_full_route_polyline(req[r].pending.route_order, outcome)),
                         rng))
    /\ UNCHANGED <<geo, provider, overlapped, probe>>

\* CancelledError is raised at the await of a cancelled request: it is not
\* an Exception, no except clause of the engine or the handler catches it,
\* and the request ends without an answer
Cancelled(r) ==
    /\ InFlight(req[r])
    /\ req[r].cancelled
    /\ req' = [req EXCEPT ![r].pc = "cancelled"]
    /\ UNCHANGED <<geo, rng, provider, overlapped, probe>>

\* the generators of a fresh process
FreshGenerators == [py |-> Seeded(1), np |-> Seeded(2)]

\* what two requests served by one process are drawn from
PairGeos == {FarPair, OneWay}

PairBases ==
    { [stops |-> <<Stop("a", 1), Stop("b", 2)>>, depot |-> FALSE],
      [stops |-> <<Stop("a", 1), Stop("b", 2), Stop("c", 3)>>, depot |-> TRUE] }

PairAlgLists == {a \in AlgLists : Len(a) = 2 /\ Range(a) \subseteq ValidAlgorithms}
                    \cup {<<"simulated">>}

PairInputs(b) ==
    {i \in RequestInputs(b) : i.algorithms \in PairAlgLists /\ HandlerValidation(i) = "ok"}

\* a fresh process that serves one request, or two requests for the same
\* stops
Init ==
    /\ rng = FreshGenerators
    /\ probe = NoProbe
    /\ overlapped = [x \in Requests |-> FALSE]
    /\ \/ /\ geo \in Geos
          /\ provider \in {"up", "down"}
          /\ \E b \in Bases : \E i \in RequestInputs(b) :
                req = [x \in Requests |-> IF x = 1 THEN Idle(i) ELSE Unused]
       \/ /\ geo \in PairGeos
          /\ provider = "up"
          /\ \E b \in PairBases : req \in [Requests -> {Idle(i) : i \in PairInputs(b)}]

Next == \E r \in Requests : Receive(r) \/ MatrixReturned(r) \/ PolylineReturned(r)

Spec == Init /\ [][Next]_vars

\* ------------------------------------------- one request that is cancelled
InitCancel ==
    /\ rng = FreshGenerators
    /\ probe = NoProbe
    /\ overlapped = [x \in Requests |-> FALSE]
    /\ geo \in Geos
    /\ provider = "up"
    /\ \E b \in Bases : \E i \in RequestInputs(b) :
          req = [x \in Requests |-> IF x = 1 THEN Idle(i) ELSE Unused]

NextCancel ==
    \E r \in Requests :
        \/ Receive(r)
        \/ MatrixReturned(r)
        \/ PolylineReturned(r)
        \/ Cancel(r)
        \/ CancelWhileRunning(r)
        \/ Cancelled(r)

SpecCancel == InitCancel /\ [][NextCancel]_vars

\* ------------------- one request whose calls for a polyline end in any way
InitPolyline ==
    /\ rng = FreshGenerators
    /\ probe = NoProbe
    /\ overlapped = [x \in Requests |-> FALSE]
    /\ geo \in Geos
    /\ provider = "unreliable"
    /\ \E b \in Bases : \E i \in RequestInputs(b) :
          req = [x \in Requests |-> IF x = 1 THEN Idle(i) ELSE Unused]

SpecPolyline == InitPolyline /\ [][Next]_vars

\* ------------------------------- the Classical optimizer on many matrices
\* every geography whose distances between distinct points are 1, 2 or
\* HiEntry, except that every distance into point 0 is 1 (a route never
\* returns to its start); the times are the distances of the opposite
\* direction
ThreeValuedGeos ==
    LET Legs == {c \in (1..4) \X (2..4) : c[1] # c[2]}
        Entry(f, i, j) == IF i = j THEN 0 ELSE IF j = 1 THEN 1 ELSE f[<<i, j>>]
    IN  { [D |-> [i \in 1..4 |-> [j \in 1..4 |-> Entry(f, i, j)]],
           T |-> [i \in 1..4 |-> [j \in 1..4 |-> Entry(f, j, i)]]]
            : f \in [Legs -> {1, 2, HiEntry}] }

ClassicalInputs ==
    { [stops |-> <<Stop("a", 1), Stop("b", 2), Stop("c", 3)>>, depot |-> TRUE,
       algorithms |-> <<"classical">>, random_seed |-> Null,
       google_api_key |-> "key", routing_profile |-> "driving"] }

\* one request for the Classical optimizer over the depot and three stops
InitClassical ==
    /\ rng = FreshGenerators
    /\ probe = NoProbe
    /\ overlapped = [x \in Requests |-> FALSE]
    /\ provider = "up"
    /\ geo \in ThreeValuedGeos \cup Geos
    /\ \E i \in ClassicalInputs :
          req = [x \in Requests |-> IF x = 1 THEN Idle(i) ELSE Unused]

SpecClassical == InitClassical /\ [][Next]_vars

\* the tours over n locations that begin with index 0
ToursFromZero(n) ==
    {t \in [1..n -> 0..(n - 1)] : t[1] = 0 /\ Range(t) = 0..(n - 1)}

\* ------------------------------------------ routines run on their own
\* the first n of the depot and three stops
ProbeLocations(n) ==
    SubSeq(<<Stop("depot", 0), Stop("a", 1), Stop("b", 2), Stop("c", 3)>>, 1, n)

\* the instance the engine builds for them over geography g
ProbeInstance(g, n) == BuildInstance(g, "up", ProbeLocations(n))

\* no request is served while a routine is run on its own
ProbeWorld ==
    /\ rng = FreshGenerators
    /\ overlapped = [x \in Requests |-> FALSE]
    /\ provider = "up"
    /\ req = [x \in Requests |-> Unused]

\* the seeds the 'random' construction is tried with
MaxShuffleSeeds == 8

\* _construct_route_with_method('random', n) called once after every
\* random.seed(1), random.seed(2), ...: `seen` collects the routes returned
InitRandomMethod ==
    /\ ProbeWorld
    /\ geo \in Geos
    /\ \E n \in 3..4 :
          probe = [kind |-> "random_method", inst |-> ProbeInstance(geo, n),
                   seed |-> 0, seen |-> {}]

TryRandomMethod ==
    /\ probe.kind = "random_method"
    /\ probe.seed < MaxShuffleSeeds
    /\ probe' = [probe EXCEPT
                    !.seed = @ + 1,
                    !.seen = @ \cup {construct_route_with_method("random", probe.inst,
                                         Seeded(probe.seed + 1)).route}]
    /\ UNCHANGED <<geo, rng, provider, req, overlapped>>

SpecRandomMethod == InitRandomMethod /\ [][TryRandomMethod]_vars

\* _construct_farthest_insertion_route, iteration by iteration: the state
\* after start_pair has been picked
FarthestStart(inst, start_pair) ==
    [kind |-> "farthest_insertion", inst |-> inst, start_pair |-> start_pair,
     route |-> start_pair, unvisited |-> (0..(inst.n - 1)) \ Range(start_pair),
     before |-> <<>>, point |-> Null, position |-> Null, costs |-> <<>>]

InitFarthestInsertion ==
    /\ ProbeWorld
    /\ geo \in ThreeValuedGeos \cup Geos
    /\ probe = FarthestStart(ProbeInstance(geo, 4),
                   StartPairScan(ProbeInstance(geo, 4).D, 4, 0, 1, 0, <<0, 1>>))

\* one iteration of `while unvisited` for the farthest_point p: the
\* cost_increase computed for every pos of the for loop is kept in `costs`
FarthestInsert(D, route, unvisited, p) ==
    [probe EXCEPT
        !.before = route, !.point = p,
        !.position = BestPosition(D, route, p),
        !.costs = [pos \in 1..Len(route) |-> CostIncrease(D, route, p, pos)],
        !.route = InsertAt(route, BestPosition(D, route, p), p),
        !.unvisited = unvisited \ {p}]

FarthestInsertionStep ==
    /\ probe.kind = "farthest_insertion"
    /\ probe.unvisited # {}
    /\ probe' = FarthestInsert(probe.inst.D, probe.route, probe.unvisited,
                     FarthestPoint(probe.inst.D, probe.route, probe.unvisited))
    /\ UNCHANGED <<geo, rng, provider, req, overlapped>>

SpecFarthestInsertion == InitFarthestInsertion /\ [][FarthestInsertionStep]_vars

\* the seeds the generation loop of QIEA is run with
MaxQIEASeeds == 400

\* _optimize_qiea from the seeding of the generators on, generation by
\* generation: st is the state of the loop
InitQIEA ==
    /\ ProbeWorld
    /\ geo \in {ScenarioA, OneWay}
    /\ \E n \in 3..4 : \E seed \in 1..MaxQIEASeeds :
          probe = [kind |-> "qiea", inst |-> ProbeInstance(geo, n), seed |-> seed,
                   start |-> QIEAStart(ProbeInstance(geo, n), seed).population,
                   st |-> QIEAStart(ProbeInstance(geo, n), seed)]

QIEAGenerationStep ==
    /\ probe.kind = "qiea"
    /\ ~probe.st.raised
    /\ probe.st.generation < QIEAGenerations
    /\ probe' = [probe EXCEPT !.st = QIEAGeneration(probe.inst, probe.st)]
    /\ UNCHANGED <<geo, rng, provider, req, overlapped>>

SpecQIEA == InitQIEA /\ [][QIEAGenerationStep]_vars

\* the seeds the loop of Simulated Annealing is run with, one after the other
MaxSASeeds == 8

\* the loop of _optimize_simulated_annealing after random.seed(seed),
\* iteration by iteration; `seen` collects the current tours of all runs
SARun(inst, seed, seen) ==
    [kind |-> "simulated_annealing", inst |-> inst, seed |-> seed,
     initial |-> construct_time_focused_route(inst),
     st |-> SAStart(inst, seed),
     seen |-> seen \cup {construct_time_focused_route(inst)}]

InitSA ==
    /\ ProbeWorld
    /\ geo \in Geos
    /\ \E n \in 3..4 : probe = SARun(ProbeInstance(geo, n), 1, {})

\* one iteration of the loop; st is the state it leaves
SAIterated(st) == [probe EXCEPT !.st = st, !.seen = @ \cup {st.route}]

SAIteration ==
    /\ probe.kind = "simulated_annealing"
    /\ ~probe.st.stopped
    /\ probe' = SAIterated(SAStep(probe.inst, probe.st))
    /\ UNCHANGED <<geo, rng, provider, req, overlapped>>

\* the optimizer is called again, with the next seed
SANextRun ==
    /\ probe.kind = "simulated_annealing"
    /\ probe.st.stopped
    /\ probe.seed < MaxSASeeds
    /\ probe' = SARun(probe.inst, probe.seed + 1, probe.seen)
    /\ UNCHANGED <<geo, rng, provider, req, overlapped>>

NextSA == SAIteration \/ SANextRun

SpecSA == InitSA /\ [][NextSA]_vars

\* _local_search_2opt_limited(route, 10) on a sample `route`, pass by pass
InitTwoOptLimited ==
    /\ ProbeWorld
    /\ geo \in Geos
    /\ \E n \in 3..4 : \E route \in ToursFromZero(n) :
           probe = [kind |-> "two_opt_limited", inst |-> ProbeInstance(geo, n),
                    input |-> route, route |-> route,
                    distance |-> calculate_route_distance(ProbeInstance(geo, n).D, route),
                    passes |-> 0, returned |-> FALSE]

\* the state a pass leaves when its scan ended as `scan`
TwoOptLimitedAfter(scan) ==
    IF scan.improved
    THEN [probe EXCEPT !.route = scan.route, !.distance = scan.distance,
                       !.passes = @ + 1]
    ELSE [probe EXCEPT !.passes = @ + 1, !.returned = TRUE]

\* one round of `for iteration in range(max_iterations)`
TwoOptLimitedPass ==
    /\ probe.kind = "two_opt_limited"
    /\ ~probe.returned
    /\ Len(probe.route) > 3
    /\ probe.passes < TwoOptLimit
    /\ probe' = TwoOptLimitedAfter(
                    FirstImprovement(probe.inst.D, probe.route, probe.distance, 1, 2))
    /\ UNCHANGED <<geo, rng, provider, req, overlapped>>

\* `if n <= 3: return route`, or the rounds are used up
TwoOptLimitedReturn ==
    /\ probe.kind = "two_opt_limited"
    /\ ~probe.returned
    /\ (Len(probe.route) <= 3 \/ probe.passes >= TwoOptLimit)
    /\ probe' = [probe EXCEPT !.returned = TRUE]
    /\ UNCHANGED <<geo, rng, provider, req, overlapped>>

NextTwoOptLimited == TwoOptLimitedPass \/ TwoOptLimitedReturn

SpecTwoOptLimited == InitTwoOptLimited /\ [][NextTwoOptLimited]_vars

\* the 2-opt loop of _optimize_classical pass by pass, from the
\* nearest-neighbour tour: `distances` holds best_distance before the loop
\* and after each outer pass
ClassicalLoopStart(inst, route0) ==
    [kind |-> "classical_loop", inst |-> inst,
     st |-> [route |-> route0, best |-> calculate_route_distance(inst.D, route0),
             improved |-> TRUE,
             log |-> <<[iter |-> 0,
                        objective |-> calculate_route_distance(inst.D, route0)]>>],
     iteration |-> 0,
     distances |-> <<calculate_route_distance(inst.D, route0)>>,
     returned |-> FALSE, result |-> NoResult]

\* the three-valued geographies whose distances from the first two points
\* are all 1
ClassicalLoopGeos ==
    {g \in ThreeValuedGeos : \A j \in 2..4 : g.D[1][j] = 1 /\ g.D[2][j] <= 1}

InitClassicalLoop ==
    /\ ProbeWorld
    /\ geo \in ClassicalLoopGeos \cup Geos
    /\ \E n \in 3..4 :
           probe = ClassicalLoopStart(ProbeInstance(geo, n),
                       construct_distance_focused_route(ProbeInstance(geo, n)))

\* the state an outer pass leaves
ClassicalPassed(st) ==
    [probe EXCEPT !.st = st, !.iteration = @ + 1,
                  !.distances = Append(@, st.best)]

\* one round of `while improved and iteration < 1000`
ClassicalLoopPass ==
    /\ probe.kind = "classical_loop"
    /\ ~probe.returned
    /\ probe.st.improved /\ probe.iteration < ClassicalMaxPasses
    /\ probe' = ClassicalPassed(ClassicalPass(probe.inst.D, probe.st, probe.inst.n,
                                              probe.iteration + 1))
    /\ UNCHANGED <<geo, rng, provider, req, overlapped>>

\* the loop is left and the RouteResult is built
ClassicalLoopReturn ==
    /\ probe.kind = "classical_loop"
    /\ ~probe.returned
    /\ ~(probe.st.improved /\ probe.iteration < ClassicalMaxPasses)
    /\ probe' = [probe EXCEPT
                    !.returned = TRUE,
                    !.result = ClassicalResult(probe.inst,
                                   [st |-> probe.st, iteration |-> probe.iteration])]
    /\ UNCHANGED <<geo, rng, provider, req, overlapped>>

NextClassicalLoop == ClassicalLoopPass \/ ClassicalLoopReturn

\* the optimizer is one coroutine without an await: once called, it runs
\* its next step
SpecClassicalLoop ==
    InitClassicalLoop /\ [][NextClassicalLoop]_vars /\ WF_vars(NextClassicalLoop)

\* ============================================================ properties
Answered(r) == req[r].pc = "responded" /\ req[r].status = 200

\* the results stored so far, as pairs <<request, algorithm>>
Stored == {ra \in Requests \X (ValidAlgorithms) : ra[2] \in DOMAIN req[ra[1]].results}

ResultOf(ra) == req[ra[1]].results[ra[2]]

InstanceOf(ra) == req[ra[1]].inst

Succeeded(ra) == ~ResultOf(ra).error

DistinctIds(inst) ==
    \A p, q \in 1..inst.n : p # q => inst.ids[p] # inst.ids[q]

\* the index of the location with the given id
IndexOfId(inst, id) == (CHOOSE q \in 1..inst.n : inst.ids[q] = id) - 1

\* the route of a result read back from its route_order
RouteOfOrder(inst, route_order) ==
    [q \in 1..Len(route_order) |-> IndexOfId(inst, route_order[q])]

\* the sum of M over the consecutive pairs of route r, no return leg
RECURSIVE OpenTourSum(_, _, _)
OpenTourSum(M, r, q) ==
    IF q >= Len(r) THEN 0 ELSE M[r[q]][r[q + 1]] + OpenTourSum(M, r, q + 1)

\* route r with the positions i..j (0-based) in opposite order
Reversal(r, i, j) ==
    [q \in 1..Len(r) |-> IF q >= i + 1 /\ q <= j + 1 THEN r[i + j + 2 - q] ELSE r[q]]

\* C1: for n >= 3 the route_order of every successful result, of each of
\* the four optimizers, begins with the id of location[0].
C1_RouteStartsAtLocation0 ==
    \A ra \in Stored :
        (Succeeded(ra) /\ InstanceOf(ra).n >= 3)
            => ResultOf(ra).route_order[1] = InstanceOf(ra).ids[1]

\* C2: when the location ids are pairwise distinct, the route_order of
\* every successful result is a permutation of the ids of all n locations:
\* length n, none repeated, none missing.
C2_RouteOrderIsPermutation ==
    \A ra \in Stored :
        (Succeeded(ra) /\ DistinctIds(InstanceOf(ra)))
            => LET order == ResultOf(ra).route_order
                   inst == InstanceOf(ra)
               IN  /\ Len(order) = inst.n
                   /\ Range(order) = Range(inst.ids)
                   /\ \A p, q \in 1..Len(order) : p # q => order[p] # order[q]

C2_Witness ==
    \E ra \in Stored :
        /\ Succeeded(ra) /\ DistinctIds(InstanceOf(ra)) /\ InstanceOf(ra).n = 4
        /\ ra[2] = "simulated"
        /\ ResultOf(ra).route_order # InstanceOf(ra).ids
        /\ ResultOf(ra).route # construct_time_focused_route(InstanceOf(ra))

\* C3: with exactly two locations every optimizer returns the two ids in
\* input order, an empty iterations_log, distance_km = D[0][1] and
\* time_min = T[0][1], and an objective that is zero only if D[0][1] = 0.
C3_TwoLocationsReportTheLeg ==
    \A ra \in Stored :
        (Succeeded(ra) /\ InstanceOf(ra).n = 2)
            => LET res == ResultOf(ra)
                   inst == InstanceOf(ra)
               IN  /\ res.route_order = inst.ids
                   /\ res.iterations_log = <<>>
                   /\ res.distance_km = inst.D[0][1]
                   /\ res.time_min = inst.T[0][1]
                   /\ (res.objective_value = 0 => inst.D[0][1] = 0)

\* C4: for n >= 3 the reported distance_km and time_min are the sums of D
\* and of T over the consecutive pairs of the returned route, without a
\* leg back to its start.
C4_DistanceAndTimeAreLegSums ==
    \A ra \in Stored :
        (Succeeded(ra) /\ InstanceOf(ra).n >= 3 /\ DistinctIds(InstanceOf(ra)))
            => LET res == ResultOf(ra)
                   inst == InstanceOf(ra)
                   r == RouteOfOrder(inst, res.route_order)
               IN  /\ res.distance_km = OpenTourSum(inst.D, r, 1)
                   /\ res.time_min = OpenTourSum(inst.T, r, 1)

C4_Witness ==
    \E ra \in Stored :
        /\ Succeeded(ra) /\ InstanceOf(ra).n = 4 /\ DistinctIds(InstanceOf(ra))
        /\ ra[2] = "classical"
        /\ ResultOf(ra).iterations >= 2
        /\ ResultOf(ra).distance_km > 0
        /\ InstanceOf(ra).D[ResultOf(ra).route[4]][0] > 0

\* C5: no reversal of positions i..j, 1 <= i < j <= n-1, of the tour the
\* Classical optimizer returns has a strictly smaller distance, for
\* symmetric and asymmetric D alike.
C5_ClassicalIsTwoOptOptimal ==
    \A r \in Requests :
        ("classical" \in DOMAIN req[r].results /\ ~req[r].results["classical"].error)
            => LET res == req[r].results["classical"]
                   inst == req[r].inst
               IN  \A i, j \in 1..(inst.n - 1) :
                       i < j => OpenTourSum(inst.D, Reversal(res.route, i, j), 1)
                                    >= OpenTourSum(inst.D, res.route, 1)

\* a returned tour that 2-opt reached by improving an asymmetric instance
C5_Witness ==
    \E r \in Requests :
        /\ "classical" \in DOMAIN req[r].results
        /\ req[r].results["classical"].iterations >= 3
        /\ req[r].inst.n = 4
        /\ \E i, j \in 0..3 : req[r].inst.D[i][j] # req[r].inst.D[j][i]

\* the optimizers that draw random numbers
Randomized == {"simulated", "qiea", "qaoa"}

\* request r was served from its arrival to its answer while no other
\* request was in flight
RanAlone(r) == Answered(r) /\ ~overlapped[r]

SameProblem(r1, r2) ==
    /\ req[r1].input.stops = req[r2].input.stops
    /\ req[r1].input.depot = req[r2].input.depot
    /\ req[r1].input.random_seed = req[r2].input.random_seed
    /\ req[r1].input.random_seed # Null

\* C6: two runs of the same request with the same non-null random_seed,
\* one after the other, return for every algorithm the same route_order,
\* objective_value, seed and iterations_log.
C6_SameSeedSameResult ==
    \A r1, r2 \in Requests :
        (/\ r1 # r2 /\ RanAlone(r1) /\ RanAlone(r2)
         /\ SameProblem(r1, r2)
         /\ req[r1].input.algorithms = req[r2].input.algorithms)
            => /\ DOMAIN req[r1].results = DOMAIN req[r2].results
               /\ \A a \in DOMAIN req[r1].results :
                      LET x == req[r1].results[a]
                          y == req[r2].results[a]
                      IN  /\ x.route_order = y.route_order
                          /\ x.objective_value = y.objective_value
                          /\ x.seed = y.seed
                          /\ x.iterations_log = y.iterations_log

C6_Witness ==
    /\ RanAlone(1) /\ RanAlone(2) /\ SameProblem(1, 2)
    /\ req[1].input.algorithms = <<"qiea", "simulated">>
    /\ req[2].input.algorithms = <<"qiea", "simulated">>
    /\ req[1].inst.n = 4
    /\ ~req[2].results["qiea"].error /\ ~req[2].results["simulated"].error
    /\ rng # FreshGenerators

\* C7: a request with a fixed seed obtains from Simulated Annealing, QIEA
\* and QAOA the same seeds and routes whether or not the handlers of other
\* requests run at its suspension points.
C7_InterleavingKeepsSeedsAndRoutes ==
    \A r1, r2 \in Requests :
        (/\ r1 # r2 /\ Answered(r1) /\ Answered(r2)
         /\ SameProblem(r1, r2)
         /\ req[r1].input.algorithms = req[r2].input.algorithms)
            => \A a \in DOMAIN req[r1].results \cap Randomized :
                   /\ req[r1].results[a].seed = req[r2].results[a].seed
                   /\ req[r1].results[a].route_order = req[r2].results[a].route_order

\* C8: for a fixed random_seed and instance, the result of an optimizer
\* (seed, route_order, objective) is the same whichever other optimizers
\* the request names and in whichever order.
C8_ResultIndependentOfOtherOptimizers ==
    \A r1, r2 \in Requests :
        (r1 # r2 /\ RanAlone(r1) /\ RanAlone(r2) /\ SameProblem(r1, r2))
            => \A a \in DOMAIN req[r1].results \cap DOMAIN req[r2].results :
                   /\ req[r1].results[a].seed = req[r2].results[a].seed
                   /\ req[r1].results[a].route_order = req[r2].results[a].route_order
                   /\ req[r1].results[a].objective_value = req[r2].results[a].objective_value

\* C9: an optimizer that raises leaves a record with the error flag, an
\* empty route_order and objective_value +inf, and the request is still
\* answered with an entry for every requested optimizer, those listed
\* before the failed one and those listed after it.
C9_FailedOptimizerDoesNotStopTheRequest ==
    \A r \in Requests :
        /\ \A a \in DOMAIN req[r].results :
               req[r].results[a].error
                   => /\ req[r].results[a].route_order = <<>>
                      /\ req[r].results[a].objective_value = Inf
        /\ (req[r].pc = "responded" /\ HandlerValidation(req[r].input) = "ok")
               => /\ req[r].status = 200
                  /\ DOMAIN req[r].results = Range(req[r].input.algorithms)

C9_Witness ==
    \E r \in Requests :
        /\ Answered(r)
        /\ req[r].input.algorithms = <<"classical", "simulated", "qiea", "qaoa">>
        /\ req[r].results["qiea"].error
        /\ ~req[r].results["classical"].error
        /\ ~req[r].results["simulated"].error
        /\ ~req[r].results["qaoa"].error
        /\ Len(req[r].results["qaoa"].route_order) = req[r].inst.n

\* C10: a POST /optimize that fails the handler's validation (fewer than 2
\* stops, empty API key, unknown profile, unknown algorithm) is answered
\* with status 400, and for too few stops the detail says that at least 2
\* are required.
C10_ValidationFailureAnswers400 ==
    \A r \in Requests :
        (req[r].pc = "responded" /\ HandlerValidation(req[r].input) # "ok")
            => /\ req[r].status = 400
               /\ Len(req[r].input.stops) < 2
                      => req[r].detail = "At least 2 delivery stops are required"

\* the provider failed every call request r made for its matrices
EveryMatrixCallFailed(r) == provider = "down" /\ req[r].calls.batch > 0

\* the matrices of request r are the Haversine distances of its locations
\* and 1.2 times them
OverHaversine(r) ==
    \A i, j \in 0..(req[r].inst.n - 1) :
        /\ req[r].inst.D[i][j] =
               haversine_distance(req[r].locations[i + 1].pt, req[r].locations[j + 1].pt)
        /\ req[r].inst.T[i][j] = FallbackMinutes(req[r].inst.D[i][j])

\* C11: when the provider fails the batch call and every per-pair call, the
\* request is still answered: distanceMatrixSource is "haversine-fallback",
\* debug.warnings is not empty, and every requested algorithm returns a
\* permutation of the locations computed over the Haversine matrix.
C11_OutageAnswersFromHaversine ==
    \A r \in Requests :
        (req[r].pc = "responded" /\ EveryMatrixCallFailed(r))
            => /\ req[r].status = 200
               /\ OverHaversine(r)
               /\ \A a \in DOMAIN req[r].results :
                      /\ ~req[r].results[a].error
                      /\ Len(req[r].results[a].route) = req[r].inst.n
                      /\ Range(req[r].results[a].route) = 0..(req[r].inst.n - 1)
               /\ req[r].distanceMatrixSource = "haversine-fallback"
               /\ req[r].warnings # <<>>

\* algorithm_params["method"] of the optimizer an algorithm name stands for
MethodOf(algorithm) ==
    CASE algorithm = "classical" -> "greedy_2opt"
      [] algorithm = "simulated" -> "simulated_annealing"
      [] algorithm = "qiea" -> "qiea"
      [] algorithm = "qaoa" -> "qaoa"

\* C12: the keys of algorithmResults are the algorithm names requested, a
\* subset of classical, simulated, qiea, qaoa, whether the optimizers
\* succeed or fail; every result was produced by the optimizer its key
\* names, so no optimizer that was not requested has run.
C12_ResultKeysAreTheRequestedAlgorithms ==
    \A r \in Requests :
        /\ DOMAIN req[r].results \subseteq Range(req[r].input.algorithms) \cap ValidAlgorithms
        /\ \A a \in DOMAIN req[r].results :
               ~req[r].results[a].error => req[r].results[a].method = MethodOf(a)
        /\ req[r].pc = "await_polyline"
               => req[r].pending.method = MethodOf(req[r].input.algorithms[req[r].k])
        /\ Answered(r) => DOMAIN req[r].results = Range(req[r].input.algorithms)

C12_Witness ==
    \E r \in Requests :
        /\ Answered(r)
        /\ req[r].input.algorithms = <<"classical">>
        /\ req[r].inst.n = 4
        /\ DOMAIN req[r].results = {"classical"}
        /\ Cardinality(DOMAIN req[r].results) = 1
        /\ ~req[r].results["classical"].error

\* the number of waypoints i in 1..n-2 of a route over n locations with i odd
OddWaypoints(n) == Cardinality({i \in 1..(n - 2) : i % 2 = 1})

\* C13: for n >= 3 the objective_value QIEA reports for its route r is
\* 0.5 * distance(r) + 0.3 * time(r) + 0.2 * diversity_bonus, the bonus
\* adding 0.05 * distance(r) / n for each odd i in 1..n-2 (in units of
\* 1 / (100 n): 50 n d + 30 n t + d for each such i).
C13_QIEAObjectiveCountsOddWaypoints ==
    \A ra \in Stored :
        (ra[2] = "qiea" /\ Succeeded(ra) /\ InstanceOf(ra).n >= 3)
            => ResultOf(ra).objective_value =
                   50 * InstanceOf(ra).n
                      * OpenTourSum(InstanceOf(ra).D, ResultOf(ra).route, 1)
                   + 30 * InstanceOf(ra).n
                        * OpenTourSum(InstanceOf(ra).T, ResultOf(ra).route, 1)
                   + OddWaypoints(InstanceOf(ra).n)
                        * OpenTourSum(InstanceOf(ra).D, ResultOf(ra).route, 1)

\* the number of i in 1..n-2 at which the step |r[i] - r[i-1]| of route r
\* differs from the step |r[i+1] - r[i]|
DirectionChanges(r) ==
    Cardinality({i \in 1..(Len(r) - 2) :
        (IF r[i + 1] > r[i] THEN r[i + 1] - r[i] ELSE r[i] - r[i + 1])
            # (IF r[i + 2] > r[i + 1] THEN r[i + 2] - r[i + 1] ELSE r[i + 1] - r[i + 2])})

\* J_base of a QAOA result in tenths: 0.3 * distance + 0.7 * time
QAOABaseOf(ra) ==
    3 * OpenTourSum(InstanceOf(ra).D, ResultOf(ra).route, 1)
        + 7 * OpenTourSum(InstanceOf(ra).T, ResultOf(ra).route, 1)

\* C14: for every n >= 3, n = 3 included, the objective_value QAOA reports
\* for its route r is J_base * (1 - 0.1 * direction_changes / n) with
\* J_base = 0.3 * distance(r) + 0.7 * time(r) (in units of 1 / (100 n):
\* 10 n J_base - J_base * direction_changes, J_base in tenths).
C14_QAOAObjectiveDiscountsDirectionChanges ==
    \A ra \in Stored :
        (ra[2] = "qaoa" /\ Succeeded(ra) /\ InstanceOf(ra).n >= 3)
            => ResultOf(ra).objective_value =
                   10 * InstanceOf(ra).n * QAOABaseOf(ra)
                       - QAOABaseOf(ra) * DirectionChanges(ResultOf(ra).route)

C16_SALogEntriesCarryBest ==
    \A ra \in Stored :
        (ra[2] = "simulated" /\ Succeeded(ra) /\ InstanceOf(ra).n >= 3)
            => /\ ResultOf(ra).iterations_log # <<>>
               /\ {ResultOf(ra).iterations_log[p].iter
                       : p \in 1..Len(ResultOf(ra).iterations_log)}
                      = {i \in 0..ResultOf(ra).iterations : i % SALogEvery = 0}
               /\ \A p \in 1..Len(ResultOf(ra).iterations_log) :
                      {"iter", "objective", "best", "temperature"}
                          \subseteq DOMAIN ResultOf(ra).iterations_log[p]
               /\ \A p \in 1..(Len(ResultOf(ra).iterations_log) - 1) :
                      ResultOf(ra).iterations_log[p + 1].best
                          <= ResultOf(ra).iterations_log[p].best

\* the number of iterations the loop of an optimizer runs when nothing
\* stops it
FullIterations(algorithm) ==
    CASE algorithm = "simulated" -> SAMaxIterations
      [] algorithm = "qiea" -> QIEAGenerations
      [] algorithm = "qaoa" -> QAOASteps

\* C17: when the cancellation of a request is signalled while the loop of
\* one of its optimizers is running, that loop stops at its next iteration
\* boundary and does not run its remaining iterations, and the results of
\* the optimizers that had completed before are not returned.
C17_CancellationStopsTheRunningLoop ==
    \A r \in Requests :
        /\ req[r].cancelled => ~Answered(r)
        /\ (req[r].signalled_in \in {"simulated", "qiea", "qaoa"} /\ req[r].inst.n >= 3)
               => req[r].pending.iterations < FullIterations(req[r].signalled_in)

\* the lat of coordinate pt lies in [-90, 90] degrees
LatInRange(pt) == LatMilli(pt) >= -90000 /\ LatMilli(pt) <= 90000

\* a stop of the request lies at a coordinate out of range
HasOutOfRangeCoordinate(input) ==
    \E p \in 1..Len(input.stops) : ~LatInRange(input.stops[p].pt)

\* C18: a request containing a stop whose lat is outside [-90, 90] is
\* rejected with a validation error before any matrix is requested from
\* the provider and before any optimizer runs.
C18_OutOfRangeCoordinateIsRejected ==
    \A r \in Requests :
        (HasOutOfRangeCoordinate(req[r].input) /\ req[r].pc # "idle")
            => /\ req[r].pc = "responded"
               /\ req[r].status \in {400, 422}
               /\ req[r].calls = NoCalls
               /\ req[r].results = NoResults

\* a matrix given by its rows, indexed from 0 as the code indexes it
FromRows(rows) ==
    [i \in 0..(Len(rows) - 1) |-> [j \in 0..(Len(rows) - 1) |-> rows[i + 1][j + 1]]]

\* the nearest-neighbour tour over D that begins with `tour`: it goes on
\* to the unvisited location at the least distance from its last location,
\* the one of least index among equals
RECURSIVE GreedyTour(_, _, _)
GreedyTour(D, tour, left) ==
    IF left = {} THEN tour
    ELSE LET last == tour[Len(tour)]
             least == CHOOSE d \in {D[last][x] : x \in left} :
                          \A x \in left : d <= D[last][x]
             next == CHOOSE x \in left :
                         D[last][x] = least /\ \A y \in left : D[last][y] = least => x <= y
         IN  GreedyTour(D, Append(tour, next), left \ {next})

GreedyTourOf(inst) == GreedyTour(inst.D, <<0>>, 1..(inst.n - 1))

ThreeInLine == FromRows(<< <<0, 1, 2>>, <<1, 0, 1>>, <<2, 1, 0>> >>)

DepotAndThree ==
    FromRows(<< <<0, 10, 5, 8>>, <<10, 0, 3, 4>>, <<5, 3, 0, 6>>, <<8, 4, 6, 0>> >>)

\* C19: the Classical optimizer starts from the nearest-neighbour tour
\* over D from index 0 (its log begins with that tour's distance) and the
\* distance it returns is never greater than that tour's; for
\* D = T = [[0,1,2],[1,0,1],[2,1,0]] it returns the order [0,1,2] with
\* distance 2 and objective 2, and for the depot instance of 4 locations
\* the initial tour is [0,2,1,3] and the returned distance is at most 12.
C19_ClassicalStartsFromNearestNeighbour ==
    \A ra \in Stored :
        (ra[2] = "classical" /\ Succeeded(ra) /\ InstanceOf(ra).n >= 3)
            => /\ ResultOf(ra).iterations_log[1] =
                      [iter |-> 0,
                       objective |-> OpenTourSum(InstanceOf(ra).D,
                                                 GreedyTourOf(InstanceOf(ra)), 1)]
               /\ ResultOf(ra).distance_km
                      <= OpenTourSum(InstanceOf(ra).D, GreedyTourOf(InstanceOf(ra)), 1)
               /\ (InstanceOf(ra).D = ThreeInLine /\ InstanceOf(ra).T = ThreeInLine)
                      => /\ ResultOf(ra).route = <<0, 1, 2>>
                         /\ ResultOf(ra).route_order = InstanceOf(ra).ids
                         /\ ResultOf(ra).distance_km = 2
                         /\ ResultOf(ra).objective_value = 2
               /\ InstanceOf(ra).D = DepotAndThree
                      => /\ GreedyTourOf(InstanceOf(ra)) = <<0, 2, 1, 3>>
                         /\ ResultOf(ra).distance_km <= 12

C19_Witness ==
    \E ra \in Stored :
        /\ ra[2] = "classical" /\ Succeeded(ra)
        /\ InstanceOf(ra).D = DepotAndThree
        /\ ResultOf(ra).iterations_log[1].objective = 12
        /\ ResultOf(ra).distance_km <= 12
        /\ ResultOf(ra).route_order[1] = "depot"

\* C20: a matrix call of the provider that fails is attempted once more,
\* exactly two attempts for that call, before the Haversine value is
\* substituted for the pair.
C20_FailedCallIsRetriedOnce ==
    \A r \in Requests :
        (EveryMatrixCallFailed(r) /\ OverHaversine(r))
            => \A p \in DOMAIN req[r].calls.directions :
                   req[r].calls.directions[p] = 2

\* C21: the 'random' construction of QIEA's generation 0 returns the
\* identity tour with the indices 1..n-1 shuffled: index 0 stays first, and
\* every arrangement of the indices 1..n-1 after it is an output of some
\* call (here: of one of the calls made after MaxShuffleSeeds seedings).
C21_RandomMethodShuffles ==
    probe.kind = "random_method"
        => /\ probe.seen \subseteq ToursFromZero(probe.inst.n)
           /\ probe.seed = MaxShuffleSeeds
                  => probe.seen = ToursFromZero(probe.inst.n)

\* the growth of the open tour `route` when point p is inserted at index
\* pos (1..len): between its neighbours, or after the last location
OpenCostIncrease(D, route, p, pos) ==
    IF pos = Len(route) THEN D[route[Len(route)]][p]
    ELSE D[route[pos]][p] + D[p][route[pos + 1]] - D[route[pos]][route[pos + 1]]

\* C22: farthest insertion inserts each chosen point p at the position
\* that minimizes the open-tour cost increase
\* D[prev,p] + D[p,next] - D[prev,next] over the candidate positions, and
\* costs no candidate position with an edge from the last element of the
\* partial route back to its first.
C22_InsertionCostsTheOpenTour ==
    (probe.kind = "farthest_insertion" /\ probe.point # Null)
        => /\ \A pos \in 1..Len(probe.before) :
                  probe.costs[pos] =
                      OpenCostIncrease(probe.inst.D, probe.before, probe.point, pos)
           /\ \A pos \in 1..Len(probe.before) :
                  OpenCostIncrease(probe.inst.D, probe.before, probe.point, probe.position)
                      <= OpenCostIncrease(probe.inst.D, probe.before, probe.point, pos)

\* C23: farthest insertion starts its route with a pair (i, j) whose
\* D[i][j] is maximal among all ordered pairs of distinct indices, also
\* when D is asymmetric and the maximum lies below the diagonal.
C23_StartPairIsFarthest ==
    probe.kind = "farthest_insertion"
        => \A i, j \in 0..(probe.inst.n - 1) :
               i # j => probe.inst.D[i][j]
                            <= probe.inst.D[probe.start_pair[1]][probe.start_pair[2]]

\* every affinity between distinct cities of the population is positive
AllPositive(population, n) ==
    \A k \in 1..Len(population) : \A i, j \in 0..(n - 1) :
        i # j => population[k][i][j] > 0

\* C24: in the walk of the generations >= 1, when every affinity from the
\* current city to the unvisited ones is zero (mutation clips entries to
\* 0; the populations looked at start without a zero) the next city is
\* picked uniformly and the walk completes to a full tour, so QIEA does not
\* end in an error record.
C24_ZeroAffinitiesPickUniformly ==
    (probe.kind = "qiea" /\ AllPositive(probe.start, probe.inst.n))
        => /\ ~probe.st.raised
           /\ ~QIEAResult(probe.inst, probe.seed, probe.st).res.error

\* C26: every entry of every quantum individual stays within [0, 1] (0 to
\* QOne tenths) after initialization and after every rotation update and
\* mutation, through all generations.
C26_AffinitiesStayInUnitInterval ==
    probe.kind = "qiea"
        => \A k \in 1..Len(probe.st.population) :
               \A i, j \in 0..(probe.inst.n - 1) :
                   /\ probe.st.population[k][i][j] >= 0
                   /\ probe.st.population[k][i][j] <= QOne

C26_Witness ==
    /\ probe.kind = "qiea"
    /\ probe.inst.n = 4
    /\ probe.st.generation = QIEAGenerations
    /\ probe.st.population # probe.start
    /\ \E k \in 1..Len(probe.st.population) : \E i, j \in 0..(probe.inst.n - 1) :
           /\ i # j
           /\ probe.start[k][i][j] = QOne - 1
           /\ probe.st.population[k][i][j] = QOne
    /\ \E k \in 1..Len(probe.st.population) : \E i, j \in 0..(probe.inst.n - 1) :
           /\ i # j
           /\ probe.start[k][i][j] > 0
           /\ probe.st.population[k][i][j] = 0

\* C25: for every n >= 3, n = 3 included, each iteration of Simulated
\* Annealing builds its candidate by one swap, insert or reverse on the
\* positions 1..n-1 of the current tour, so that every tour obtainable from
\* the initial tour by such moves, that is every tour beginning with index
\* 0, can become the current tour (here: has been the current tour of one
\* of the MaxSASeeds runs).  The runs of the model are too short to visit
\* the six tours of four points, so the second part is stated for n = 3,
\* where the other tour is one move away from the initial one.
C25_EveryTourCanBecomeCurrent ==
    probe.kind = "simulated_annealing"
        => /\ probe.seen \subseteq ToursFromZero(probe.inst.n)
           /\ (probe.inst.n = 3 /\ probe.seed = MaxSASeeds /\ probe.st.stopped)
                  => probe.seen = ToursFromZero(3)

\* C30: at every iteration boundary of Simulated Annealing best_objective
\* is the hybrid objective (6 d + 4 t, in tenths) of best_route, it is at
\* most current_objective and at most the objective of the initial
\* time-nearest-neighbour tour; and an iteration that does not lower the
\* current objective (a worse or equal candidate accepted, or none) leaves
\* best_route and best_objective as they were.
C30_BestIsKept ==
    /\ [](probe.kind = "simulated_annealing"
            => /\ probe.st.best_objective =
                      6 * OpenTourSum(probe.inst.D, probe.st.best_route, 1)
                      + 4 * OpenTourSum(probe.inst.T, probe.st.best_route, 1)
               /\ probe.st.best_objective <= probe.st.current_objective
               /\ probe.st.best_objective <=
                      6 * OpenTourSum(probe.inst.D, probe.initial, 1)
                      + 4 * OpenTourSum(probe.inst.T, probe.initial, 1))
    /\ [][(/\ probe.kind = "simulated_annealing"
           /\ probe'.seed = probe.seed
           /\ probe'.st.current_objective >= probe.st.current_objective)
              => /\ probe'.st.best_route = probe.st.best_route
                 /\ probe'.st.best_objective = probe.st.best_objective]_vars

C30_Witness ==
    /\ probe.kind = "simulated_annealing"
    /\ probe.inst.n = 4
    /\ probe.st.iteration = SAMaxIterations
    /\ probe.st.route # probe.st.best_route
    /\ probe.st.current_objective > probe.st.best_objective
    /\ probe.st.best_route # probe.initial
    /\ probe.st.best_objective <
           6 * OpenTourSum(probe.inst.D, probe.initial, 1)
           + 4 * OpenTourSum(probe.inst.T, probe.initial, 1)


\* C27: the bounded 2-opt applied to a late-phase QAOA sample (n >= 3)
\* returns a permutation with index 0 first whose distance is not greater
\* than the sample's, after at most 10 passes; whenever it stops before
\* using all 10 passes, no reversal of order[i..j], 1 <= i < j <= n-1, of
\* the returned tour strictly reduces the distance.
C27_BoundedTwoOptEndsLocallyOptimal ==
    (probe.kind = "two_opt_limited" /\ probe.returned)
        => /\ probe.route \in ToursFromZero(probe.inst.n)
           /\ calculate_route_distance(probe.inst.D, probe.route)
                  <= calculate_route_distance(probe.inst.D, probe.input)
           /\ probe.passes <= TwoOptLimit
           /\ probe.passes < TwoOptLimit
                  => \A i \in 1..(probe.inst.n - 2) : \A j \in (i + 1)..(probe.inst.n - 1) :
                         calculate_route_distance(probe.inst.D,
                                                  ReverseSlice(probe.route, i, j))
                             >= calculate_route_distance(probe.inst.D, probe.route)


\* the positions of the algorithm list of request q after position k that
\* name the algorithm of position k again
LaterRuns(q, k) ==
    {i \in (k + 1)..Len(q.input.algorithms) : q.input.algorithms[i] = q.input.algorithms[k]}

\* C28: the full polyline is requested only for an optimizer that returned
\* a result, after that optimizer finished (a request waits for a polyline
\* only with the returned result of a known algorithm in hand, and it has
\* made no more calls than it has results to show or to complete); and
\* whatever way the retrieval fails (status, payload, exception, missing
\* session) the optimizer's entry is reported with route_order,
\* distance_km, time_min and objective_value as the optimizer returned them
\* and polyline = "".
C28_PolylineFailureKeepsTheResult ==
    /\ [](\A r \in Requests :
            /\ req[r].pc = "await_polyline"
                  => /\ req[r].input.algorithms[req[r].k] \in ValidAlgorithms
                     /\ ~req[r].pending.error
                     /\ req[r].pending.polyline = ""
                     /\ Len(req[r].pending.route_order) = req[r].inst.n
                     /\ \A o \in PolylineFailures :
                            get_full_route_polyline(req[r].pending.route_order, o) = ""
            /\ Len(req[r].polyline_calls) <= req[r].k
            /\ (\A a \in DOMAIN req[r].results : req[r].results[a].error)
                  => req[r].polyline_calls = <<>>)
    /\ [][\A r \in Requests :
            (/\ req[r].pc = "await_polyline"
             /\ req'[r].polyline_calls # req[r].polyline_calls
             /\ LaterRuns(req[r], req[r].k) = {})
                => LET outcome == req'[r].polyline_calls[Len(req'[r].polyline_calls)]
                       entry == req'[r].results[req[r].input.algorithms[req[r].k]]
                   IN  /\ entry.route_order = req[r].pending.route_order
                       /\ entry.distance_km = req[r].pending.distance_km
                       /\ entry.time_min = req[r].pending.time_min
                       /\ entry.objective_value = req[r].pending.objective_value
                       /\ ~entry.error
                       /\ outcome \in PolylineFailures => entry.polyline = ""
                       /\ outcome = "ok" => entry.polyline = "encoded"]_vars

C28_Witness ==
    /\ provider = "unreliable"
    /\ req[1].pc = "responded"
    /\ req[1].status = 200
    /\ req[1].polyline_calls = <<"payload", "ok">>
    /\ req[1].input.algorithms = <<"classical", "qaoa">>
    /\ req[1].results["classical"].polyline = ""
    /\ req[1].results["classical"].objective_value > 0
    /\ Len(req[1].results["classical"].route_order) = 4
    /\ req[1].results["qaoa"].polyline = "encoded"


\* C29: the 2-opt loop of the Classical optimizer always terminates; it
\* makes at least one and at most 1000 outer passes, every outer pass
\* except the last strictly decreases the tour distance, and the recorded
\* algorithm_params.iterations is the number of outer passes made.
C29_ClassicalLoopTerminates ==
    /\ <>(probe.kind = "classical_loop" /\ probe.returned)
    /\ [](probe.kind = "classical_loop"
            => /\ probe.iteration <= ClassicalMaxPasses
               /\ Len(probe.distances) = probe.iteration + 1
               /\ \A p \in 1..(probe.iteration - 1) :
                      probe.distances[p + 1] < probe.distances[p]
               /\ probe.iteration >= 1
                      => probe.distances[probe.iteration + 1]
                             <= probe.distances[probe.iteration]
               /\ probe.returned
                      => /\ probe.iteration >= 1
                         /\ probe.result.iterations = probe.iteration
                         /\ probe.result.distance_km
                                = probe.distances[probe.iteration + 1])

C29_Witness ==
    /\ probe.kind = "classical_loop"
    /\ probe.returned
    /\ probe.result.iterations = 3
    /\ probe.distances[3] < probe.distances[2]
    /\ probe.distances[2] < probe.distances[1]
    /\ probe.distances[4] = probe.distances[3]

=============================================================================
